---- MODULE Spec2Model ----
(***************************************************************************)
(* A model of the core of contour: the k8s event buffer                    *)
(* (internal/k8s/buffer.go) and the Translator with its Listener and       *)
(* VirtualHost caches (internal/contour).                                  *)
(*                                                                         *)
(* Two specifications share the module:                                    *)
(*   BufSpec  the buffer: producer goroutines calling OnAdd/OnUpdate/      *)
(*            OnDelete, the channel b.ev, the consumer goroutine b.loop    *)
(*            and the wrapped handler b.rh;                                *)
(*   Spec     the Translator driven directly by OnAdd/OnUpdate/OnDelete,   *)
(*            as the e2e tests drive it.                                   *)
(***************************************************************************)
EXTENDS Integers, Sequences, FiniteSets, TLC

VARIABLES
    \* ---- buffer (internal/k8s/buffer.go) ----
    size,       \* cap(b.ev), fixed by NewBuffer
    ev,         \* the contents of the channel b.ev, oldest first
    ppc,        \* per producer goroutine: where it is inside OnAdd/OnUpdate/OnDelete/send
    pev,        \* per producer goroutine: the event it is sending
    issued,     \* per producer goroutine: the calls it has made on the buffer, in order
    lpc,        \* where b.loop is: "select", "call" (inside b.rh.On*), "stopped"
    stop,       \* TRUE once the stop channel is closed
    running,    \* the handler calls in progress (events handed to b.rh, not yet returned)
    calls,      \* the calls made on b.rh, in the order they began
    nfull,      \* number of "event channel is full" lines printed by send
    \* ---- translator (internal/contour) ----
    tr,         \* the Translator: its configuration, its translatorCache and
                \* the contents and versions of its Listener and VirtualHost caches
    \* ---- discovery server ----
    resp,       \* the last Fetch request answered, with its response (<<>>: none yet)
    \* ---- orchestrator library ----
    last        \* the last Service event delivered to the Translator, or the last call
                \* of hashname or virtualhost with its result (<<>>: none yet)

bufvars == <<size, ev, ppc, pev, issued, lpc, stop, running, calls, nfull>>

vars == <<size, ev, ppc, pev, issued, lpc, stop, running, calls, nfull, tr, resp, last>>

(***************************************************************************)
(* Bounds of the buffer model.                                             *)
(***************************************************************************)
MaxSize == 2        \* channel capacities 0..MaxSize are explored
MaxCalls == 3       \* calls made on the buffer, all producer goroutines together
MaxCancelCalls == 2 \* the same, where the scheduling of the loop is followed

Producers == {"p1", "p2"}

Objs == {"a", "b"}

None == "none"

(***************************************************************************)
(* buffer.go:29-39  the three event types.                                 *)
(***************************************************************************)
addEvent(obj, id) ==
    [type |-> "addEvent", obj |-> obj, oldObj |-> None, newObj |-> None, id |-> id]

updateEvent(oldObj, newObj, id) ==
    [type |-> "updateEvent", obj |-> None, oldObj |-> oldObj, newObj |-> newObj, id |-> id]

deleteEvent(obj, id) ==
    [type |-> "deleteEvent", obj |-> obj, oldObj |-> None, newObj |-> None, id |-> id]

\* A call on a ResourceEventHandler: the method and its arguments.
HandlerCall(method, obj, oldObj, newObj) ==
    [method |-> method, obj |-> obj, oldObj |-> oldObj, newObj |-> newObj]

\* The calls a producer may make (the inputs of the model).
CallChoices ==
    {HandlerCall("OnAdd", o, None, None) : o \in Objs}
    \cup {HandlerCall("OnUpdate", None, "a", "b")}
    \cup {HandlerCall("OnDelete", "a", None, None)}

(***************************************************************************)
(* buffer.go:78-88  OnAdd, OnUpdate, OnDelete wrap their arguments in the  *)
(* matching event type.                                                    *)
(***************************************************************************)
EventOf(c, id) ==
    CASE c.method = "OnAdd"    -> addEvent(c.obj, id)
      [] c.method = "OnUpdate" -> updateEvent(c.oldObj, c.newObj, id)
      [] c.method = "OnDelete" -> deleteEvent(c.obj, id)

(***************************************************************************)
(* buffer.go:62-71  the type switch of loop: the call on b.rh an event     *)
(* leads to.                                                               *)
(***************************************************************************)
DispatchOf(e) ==
    CASE e.type = "addEvent"    -> HandlerCall("OnAdd", e.obj, None, None)
      [] e.type = "updateEvent" -> HandlerCall("OnUpdate", None, e.oldObj, e.newObj)
      [] e.type = "deleteEvent" -> HandlerCall("OnDelete", e.obj, None, None)

\* (mutant) a channel that hands out the newest element first.
ChanSendLIFO(q, e) == <<e>> \o q

\* buffer.go:92,96  b.ev <- ev: a channel send appends at the tail of the
\* channel's queue.
ChanSend(q, e) == Append(q, e)

\* (mutant) the loop starts the handler call and selects again at once, as
\* "go b.rh.OnAdd(ev.obj)" would.
LoopAfterDispatchAsync == "select"

\* buffer.go:62-71: the loop calls b.rh synchronously and selects again only
\* after the call has returned.
LoopAfterDispatch == "call"

\* The loop takes event e (from the queue, or directly from a sender when
\* the channel is unbuffered) and calls the handler.
LoopTake(e) ==
    /\ running' = running \cup {e}
    /\ calls' = Append(calls, [call |-> DispatchOf(e), id |-> e.id])
    /\ lpc' = LoopAfterDispatch

\* (mutant) a send proceeds only into the queue: an unbuffered channel never
\* hands an event to the waiting loop.
CanSendBuffered == Len(ev) < size

\* b.ev <- ev can proceed: room in the queue, or (unbuffered) a receiver
\* waiting in the select of loop.
CanSend ==
    \/ Len(ev) < size
    \/ size = 0 /\ lpc = "select"

\* b.ev <- ev proceeds.
DoSend(e) ==
    IF size = 0
    THEN /\ LoopTake(e)
         /\ UNCHANGED ev
    ELSE /\ ev' = ChanSend(ev, e)
         /\ UNCHANGED <<running, calls, lpc>>

\* The number of calls made on the buffer so far.
NIssued == Len(issued["p1"]) + Len(issued["p2"])

BufInit ==
    /\ size \in 0..MaxSize
    /\ ev = <<>>
    /\ ppc = [p \in Producers |-> "idle"]
    /\ pev = [p \in Producers |-> None]
    /\ issued = [p \in Producers |-> <<>>]
    /\ lpc = "select"
    /\ stop = FALSE
    /\ running = {}
    /\ calls = <<>>
    /\ nfull = 0

(***************************************************************************)
(* buffer.go:78-88  a producer goroutine calls OnAdd/OnUpdate/OnDelete.    *)
(***************************************************************************)
Call(p) ==
    /\ ppc[p] = "idle"
    /\ NIssued < MaxCalls
    /\ \E c \in CallChoices :
         /\ issued' = [issued EXCEPT ![p] = Append(@, c)]
         /\ pev' = [pev EXCEPT ![p] = EventOf(c, <<p, Len(issued[p]) + 1>>)]
    /\ ppc' = [ppc EXCEPT ![p] = "send"]
    /\ UNCHANGED <<size, ev, lpc, stop, running, calls, nfull>>

(***************************************************************************)
(* buffer.go:91-93  send: the first select case, b.ev <- ev.               *)
(***************************************************************************)
SendFast(p) ==
    /\ ppc[p] = "send"
    /\ CanSend
    /\ DoSend(pev[p])
    /\ ppc' = [ppc EXCEPT ![p] = "idle"]
    /\ pev' = [pev EXCEPT ![p] = None]
    /\ UNCHANGED <<size, issued, stop, nfull>>

\* (mutant) a send that logs and drops the event when the channel is full.
SendDefaultDrop(p) ==
    /\ ppc[p] = "send"
    /\ ~CanSend
    /\ nfull' = nfull + 1
    /\ ppc' = [ppc EXCEPT ![p] = "idle"]
    /\ pev' = [pev EXCEPT ![p] = None]
    /\ UNCHANGED <<size, ev, issued, lpc, stop, running, calls>>

(***************************************************************************)
(* buffer.go:94-95  send: the default case, taken when the send cannot     *)
(* proceed; it logs and goes on to the blocking send.                      *)
(***************************************************************************)
SendDefault(p) ==
    /\ ppc[p] = "send"
    /\ ~CanSend
    /\ nfull' = nfull + 1
    /\ ppc' = [ppc EXCEPT ![p] = "blocked"]
    /\ UNCHANGED <<size, ev, pev, issued, lpc, stop, running, calls>>

(***************************************************************************)
(* buffer.go:96  send: the blocking b.ev <- ev.                            *)
(***************************************************************************)
SendBlocked(p) ==
    /\ ppc[p] = "blocked"
    /\ CanSend
    /\ DoSend(pev[p])
    /\ ppc' = [ppc EXCEPT ![p] = "idle"]
    /\ pev' = [pev EXCEPT ![p] = None]
    /\ UNCHANGED <<size, issued, stop, nfull>>

(***************************************************************************)
(* buffer.go:61-71  loop: case ev := <-b.ev, and the call on b.rh.         *)
(***************************************************************************)
LoopRecv ==
    /\ lpc = "select"
    /\ ev # <<>>
    /\ LoopTake(Head(ev))
    /\ ev' = Tail(ev)
    /\ UNCHANGED <<size, ppc, pev, issued, stop, nfull>>

(***************************************************************************)
(* buffer.go:64-68  a call on b.rh returns.                                *)
(***************************************************************************)
HandlerReturn ==
    /\ \E e \in running : running' = running \ {e}
    /\ lpc' = IF lpc = "call" THEN "select" ELSE lpc
    /\ UNCHANGED <<size, ev, ppc, pev, issued, stop, calls, nfull>>

\* (mutant) a stop case that hands every queued event to the handler before
\* it returns.
LoopStopDrain ==
    /\ lpc = "select"
    /\ stop
    /\ calls' = calls \o [n \in 1..Len(ev) |-> [call |-> DispatchOf(ev[n]), id |-> ev[n].id]]
    /\ ev' = <<>>
    /\ lpc' = "stopped"
    /\ UNCHANGED <<size, ppc, pev, issued, stop, running, nfull>>

\* (mutant) a stop case that goes round the loop again instead of returning.
LoopStopContinue ==
    /\ lpc = "select"
    /\ stop
    /\ UNCHANGED <<size, ev, ppc, pev, issued, lpc, stop, running, calls, nfull>>

(***************************************************************************)
(* buffer.go:72-73  loop: case <-stop: return.                             *)
(***************************************************************************)
LoopStop ==
    /\ lpc = "select"
    /\ stop
    /\ lpc' = "stopped"
    /\ UNCHANGED <<size, ev, ppc, pev, issued, stop, running, calls, nfull>>

(***************************************************************************)
(* buffer.go:48  the workgroup closes the stop channel.                    *)
(***************************************************************************)
CloseStop ==
    /\ ~stop
    /\ stop' = TRUE
    /\ UNCHANGED <<size, ev, ppc, pev, issued, lpc, running, calls, nfull>>


(***************************************************************************)
(* Properties of the buffer.                                               *)
(***************************************************************************)

\* The identities <<producer, n>> of the calls made on the buffer so far.
IssuedIds == {id \in Producers \X (1..MaxCalls) : id[2] <= Len(issued[id[1]])}

\* The call on the buffer that id names.
IssuedCall(id) == issued[id[1]][id[2]]

\* The event is still in the hands of its producer, inside send.
HeldBySender(id) == \E p \in Producers : ppc[p] # "idle" /\ pev[p].id = id

\* Positions of the event in the channel, and of its calls on the handler.
ChanPositions(id) == {i \in 1..Len(ev) : ev[i].id = id}
CallPositions(id) == {i \in 1..Len(calls) : calls[i].id = id}

\* The events passed to the buffer and not yet handed to the handler.
Undelivered == {id \in IssuedIds : CallPositions(id) = {}}

\* Every event is in exactly one place: with its sender, in the channel,
\* or handed to the handler once, unchanged.
Conservation ==
    /\ \A id \in IssuedIds :
         /\ (IF HeldBySender(id) THEN 1 ELSE 0)
              + Cardinality(ChanPositions(id))
              + Cardinality(CallPositions(id)) = 1
         /\ \A i \in ChanPositions(id) : ev[i] = EventOf(IssuedCall(id), id)
         /\ \A i \in CallPositions(id) : calls[i].call = IssuedCall(id)
    /\ \A i \in 1..Len(calls) : calls[i].id \in IssuedIds
    /\ \A e \in running : CallPositions(e.id) # {}

\* C1: at most one call into the wrapped handler is in progress at any time,
\* however many producer goroutines are inside OnAdd/OnUpdate/OnDelete.
C1_Serialized == Cardinality(running) <= 1

\* C1 witness: both producers are inside a call on the buffer while one
\* handler call is in progress.
C1_Witness ==
    /\ \A p \in Producers : ppc[p] # "idle"
    /\ Cardinality(running) = 1
    /\ lpc = "call"

\* C2 (as claimed): every event passed to the buffer is delivered to the
\* handler exactly once with the matching method and arguments; so no state
\* is reached in which an event can no longer be delivered.
C2_DeliveredExactlyOnce ==
    /\ Conservation
    /\ (Undelivered # {} => lpc # "stopped")

\* C2 (amended): a send on a full channel blocks instead of dropping; every
\* event passed to the buffer is with its blocked sender, in the channel, or
\* handed to the handler exactly once with the matching method and the same
\* arguments; and as long as the loop has not returned on the stop signal,
\* an undelivered event never leaves the buffer stuck.
C2_NoEventLoss ==
    /\ Conservation
    /\ \A p \in Producers : ppc[p] = "blocked" => HeldBySender(pev[p].id)
    /\ (Undelivered # {} /\ lpc # "stopped") =>
          ENABLED (\/ LoopRecv
                   \/ HandlerReturn
                   \/ \E p \in Producers : SendFast(p) \/ SendDefault(p) \/ SendBlocked(p))

\* C2 witness: a send found the channel full and blocked, and every event
\* passed to the buffer has been handed to the handler, with two different
\* methods among them.
C2_Witness ==
    /\ nfull >= 1
    /\ NIssued >= 2
    /\ Undelivered = {}
    /\ \E i, j \in 1..Len(calls) : calls[i].call.method # calls[j].call.method

\* C3: the handler is invoked for the events of one producer goroutine in
\* the order that goroutine passed them to the buffer.
C3_FIFOPerProducer ==
    \A i, j \in 1..Len(calls) :
        (i < j /\ calls[i].id[1] = calls[j].id[1]) => calls[i].id[2] < calls[j].id[2]

\* C3 witness: two events of one producer were delivered in order with an
\* event of the other producer between them, after a send had blocked on a
\* full channel.
C3_Witness ==
    /\ nfull >= 1
    /\ Len(calls) >= 3
    /\ calls[1].id[1] = calls[3].id[1]
    /\ calls[2].id[1] # calls[1].id[1]


(***************************************************************************)
(*                              Translator                                 *)
(***************************************************************************)

MaxVersion == 4     \* events are accepted while both cache versions are below it

DEFAULT_INGRESS_CLASS == "contour"
ENVOY_HTTP_LISTENER == "ingress_http"
ENVOY_HTTPS_LISTENER == "ingress_https"
DEFAULT_HTTP_ACCESS_LOG == "/dev/stdout"
DEFAULT_HTTP_LISTENER_ADDRESS == "0.0.0.0"
DEFAULT_HTTP_LISTENER_PORT == 8080
DEFAULT_HTTPS_ACCESS_LOG == "/dev/stdout"
DEFAULT_HTTPS_LISTENER_ADDRESS == DEFAULT_HTTP_LISTENER_ADDRESS
DEFAULT_HTTPS_LISTENER_PORT == 8443

TLSCertKey == "tls.crt"
TLSPrivateKeyKey == "tls.key"

annotationIngressClass == "kubernetes.io/ingress.class"
annotationAllowHTTP == "kubernetes.io/ingress.allow-http"
annotationForceSSLRedirect == "ingress.kubernetes.io/force-ssl-redirect"
annotationRequestTimeout == "contour.heptio.com/request-timeout"
annotationTLSMinimumProtocolVersion == "contour.heptio.com/tls-minimum-protocol-version"

(***************************************************************************)
(* Go maps: functions whose domain is the set of keys present.             *)
(***************************************************************************)
EmptyMap == <<>>

Put(m, k, v) == [x \in (DOMAIN m) \cup {k} |-> IF x = k THEN v ELSE m[x]]

Del(m, k) == [x \in (DOMAIN m) \ {k} |-> m[x]]

\* m[k] of a map of maps: the nil map when k is missing.
At(m, k) == IF k \in DOMAIN m THEN m[k] ELSE EmptyMap

RECURSIVE Flatten(_)
Flatten(ss) == IF ss = <<>> THEN <<>> ELSE Head(ss) \o Flatten(Tail(ss))

SeqRange(s) == {s[i] : i \in 1..Len(s)}

(***************************************************************************)
(* The objects the orchestrator sends (the inputs of the model).           *)
(***************************************************************************)
NoAnnotations == EmptyMap

IngressBackend(serviceName, servicePort) ==
    [serviceName |-> serviceName, servicePort |-> servicePort]

HTTPIngressPath(path, backend) == [path |-> path, backend |-> backend]

IngressRule(host, paths) == [host |-> host, paths |-> paths]

IngressTLS(hosts, secretName) == [hosts |-> hosts, secretName |-> secretName]

\* backend is the pointer Spec.Backend: <<>> when nil, <<b>> otherwise.
Ingress(name, annotations, backend, rules, tls) ==
    [kind |-> "Ingress", namespace |-> "default", name |-> name,
     annotations |-> annotations, backend |-> backend, rules |-> rules, tls |-> tls]

\* ingressroutev1.Service; weight is the pointer Weight: <<>> when nil,
\* <<w>> otherwise.
RouteService(name, port, weight) == [name |-> name, port |-> port, weight |-> weight]

IngressRoute(name, fqdn, routes) ==
    [kind |-> "IngressRoute", namespace |-> "default", name |-> name,
     fqdn |-> fqdn, routes |-> routes]

Secret(name, data) ==
    [kind |-> "Secret", namespace |-> "default", name |-> name, data |-> data]

\* v1.ServicePort: name is "" for a port without name.
ServicePort(name, port) == [name |-> name, port |-> port]

\* part_002 (service): a v1.Service and its ports.
Service(namespace, name, ports) ==
    [kind |-> "Service", namespace |-> namespace, name |-> name, ports |-> ports]

\* cache.DeletedFinalStateUnknown
DeletedFinalStateUnknown(obj) ==
    [kind |-> "DeletedFinalStateUnknown", namespace |-> obj.namespace,
     name |-> obj.name, Obj |-> obj]

\* An object of a type the Translator does not know (a *v1.Pod, say).
UnknownObject == [kind |-> "Pod", namespace |-> "default", name |-> "pod"]

\* metadata{name, namespace}
metadata(obj) == <<obj.namespace, obj.name>>

IngressNames == {"i1", "i2"}

\* The shapes an Ingress of a given name takes.
IngressShapes(n) ==
    LET \* i1 routes "/", every other Ingress a longer path of its own
        rootPath(svc) == <<HTTPIngressPath(IF svc = "i1" THEN "/" ELSE "/" \o svc,
                                           IngressBackend(svc, 80))>>
        \* the TLS spec of i1 names a.com, that of the others b.com as well
        tlsA == <<IngressTLS(IF n = "i1" THEN <<"a.com">> ELSE <<"a.com", "b.com">>, "s1")>>
    IN  { \* a default backend only
          Ingress(n, NoAnnotations, <<IngressBackend(n, 80)>>, <<>>, <<>>),
          \* one rule without host
          Ingress(n, NoAnnotations, <<>>, <<IngressRule("", rootPath(n))>>, <<>>),
          \* host a.com with TLS, class set to the default class
          Ingress(n, (annotationIngressClass :> "contour"), <<>>,
                  <<IngressRule("a.com", rootPath(n))>>, tlsA),
          \* host a.com with TLS, allow-http: "false"
          Ingress(n, (annotationAllowHTTP :> "false"), <<>>,
                  <<IngressRule("a.com", rootPath(n))>>, tlsA),
          \* host a.com with TLS, class of another controller
          Ingress(n, (annotationIngressClass :> "nginx"), <<>>,
                  <<IngressRule("a.com", rootPath(n))>>, tlsA),
          \* host a.com with TLS, force-ssl-redirect: "true"
          Ingress(n, (annotationForceSSLRedirect :> "true"), <<>>,
                  <<IngressRule("a.com", rootPath(n))>>, tlsA) }

Ingresses == UNION {IngressShapes(n) : n \in IngressNames}

IngressRoutes ==
    LET routes == <<[match |-> "/", services |-> <<RouteService("r1", 80, <<>>)>>]>>
    IN  { IngressRoute("r1", "a.com", routes), IngressRoute("r1", "", routes) }

Secrets ==
    { Secret("s1", (TLSCertKey :> "cert" @@ TLSPrivateKeyKey :> "key")),
      Secret("s1", (TLSCertKey :> "cert")) }

\* Ingresses of a.com with no, one or two TLS specs that name the Secrets
\* s1 and s2, with a TLS spec for another host or without secret name, an
\* Ingress whose rule has no host, and the Secrets s1 and s2, complete or
\* lacking the certificate or the key, and a Secret s1 of another namespace.
TLSObjects ==
    LET rule(h, n) == <<IngressRule(h, <<HTTPIngressPath("/" \o n, IngressBackend(n, 80))>>)>>
        specs == { <<>>,
                   <<IngressTLS(<<"a.com">>, "s1")>>,
                   <<IngressTLS(<<"a.com">>, "s1"), IngressTLS(<<"b.com">>, "s2")>>,
                   <<IngressTLS(<<"a.com", "b.com">>, "s2")>>,
                   <<IngressTLS(<<"b.com">>, "s1")>>,
                   <<IngressTLS(<<"a.com">>, "")>> }
        data(n) == { (TLSCertKey :> "cert-" \o n @@ TLSPrivateKeyKey :> "key-" \o n),
                     (TLSCertKey :> "cert-" \o n),
                     (TLSPrivateKeyKey :> "key-" \o n) }
    IN  {Ingress(n, NoAnnotations, <<>>, rule("a.com", n), tls) : n \in IngressNames, tls \in specs}
        \cup {Ingress(n, NoAnnotations, <<>>, rule("", n), <<IngressTLS(<<"a.com">>, "s1")>>) :
                  n \in IngressNames}
        \cup UNION {{Secret(n, d) : d \in data(n)} : n \in {"s1", "s2"}}
        \cup {[Secret("s1", (TLSCertKey :> "cert-kube-system" @@ TLSPrivateKeyKey :> "key-kube-system"))
                  EXCEPT !.namespace = "kube-system"]}

\* The Services of part_002:35-372: a port without name, a port with a
\* name, a port whose number differs, and two ports with names.
Services ==
    LET ports == { <<ServicePort("", 443)>>, <<ServicePort("https", 443)>>,
                   <<ServicePort("", 80)>>, <<ServicePort("http", 80)>>,
                   <<ServicePort("http", 8080)>>,
                   <<ServicePort("http", 80), ServicePort("https", 443)>> }
    IN  {Service(ns, "kuard", ps) : ns \in {"default", "kube-system", "web"}, ps \in ports}

\* The IngressRoutes of virtualhost_test.go:1169-1427: one route to one,
\* two or three services, each with a weight of 2 or 33 or with none.
WeightedIngressRoutes ==
    LET weights == {<<>>, <<2>>, <<33>>}
        names == <<"httpbin-org", "foo-org", "bar-org">>
        ports == <<80, 8001, 8001>>
        lists == UNION {[1..n -> weights] : n \in 1..3}
    IN  { IngressRoute("r1", "a.com",
              <<[match |-> "/",
                 services |-> [k \in DOMAIN ws |-> RouteService(names[k], ports[k], ws[k])]]>>)
          : ws \in lists }

\* The Ingress of TestRequestTimeout (part_000:433-521), here called i1,
\* with each value of the request-timeout annotation, routing by its default backend, by a
\* rule without host or by a rule for a.com.
TimeoutIngresses ==
    LET annotations == {NoAnnotations} \cup
            {(annotationRequestTimeout :> v) : v \in {"600", "600s", "10m", "infinity"}}
        be == IngressBackend("backend", 80)
    IN  UNION { { Ingress("i1", a, <<be>>, <<>>, <<>>),
                  Ingress("i1", a, <<>>, <<IngressRule("", <<HTTPIngressPath("/", be)>>)>>, <<>>),
                  Ingress("i1", a, <<>>, <<IngressRule("a.com", <<HTTPIngressPath("/", be)>>)>>, <<>>) }
                : a \in annotations }

\* Everything OnAdd and OnUpdate may be handed.
Objects == Ingresses \cup IngressRoutes \cup Secrets \cup {UnknownObject}

IngressKeys == {metadata(i) : i \in Ingresses}

\* The orders in which a range over a map of Ingresses may visit the keys.
IterationOrders ==
    {o \in [1..Cardinality(IngressKeys) -> IngressKeys] :
        \A i, j \in DOMAIN o : i # j => o[i] # o[j]}

\* The values of map m as range visits them under order ord.
RangeValues(m, ord) ==
    LET keys == SelectSeq(ord, LAMBDA k : k \in DOMAIN m)
    IN  [i \in 1..Len(keys) |-> m[keys[i]]]

(***************************************************************************)
(* translatorCache (spec 4.2): the objects by kind and metadata, and the   *)
(* host indexes vhosts and vhostroutes.                                    *)
(***************************************************************************)
NewTranslatorCache ==
    [ingresses |-> EmptyMap, routes |-> EmptyMap, secrets |-> EmptyMap,
     services |-> EmptyMap, vhosts |-> EmptyMap, vhostroutes |-> EmptyMap]

\* The hosts an Ingress routes to: "*" for a default backend and for a rule
\* without host.
ingressHosts(i) ==
    (IF i.backend # <<>> THEN {"*"} ELSE {})
    \cup {IF i.rules[n].host = "" THEN "*" ELSE i.rules[n].host : n \in 1..Len(i.rules)}

routeHost(r) == IF r.fqdn = "" THEN "*" ELSE r.fqdn

\* index[h][md] = obj for every h in hosts.
IndexAdd(index, hosts, md, obj) ==
    [h \in (DOMAIN index) \cup hosts |->
        IF h \in hosts THEN Put(At(index, h), md, obj) ELSE index[h]]

\* delete(index[h], md) for every h in hosts, dropping the hosts left empty.
IndexDel(index, hosts, md) ==
    LET cut == [h \in DOMAIN index |-> IF h \in hosts THEN Del(index[h], md) ELSE index[h]]
    IN  [h \in {x \in DOMAIN cut : DOMAIN cut[x] # {}} |-> cut[h]]

cacheOnAdd(c, obj) ==
    CASE obj.kind = "Ingress" ->
            [c EXCEPT !.ingresses = Put(@, metadata(obj), obj),
                      !.vhosts = IndexAdd(@, ingressHosts(obj), metadata(obj), obj)]
      [] obj.kind = "IngressRoute" ->
            [c EXCEPT !.routes = Put(@, metadata(obj), obj),
                      !.vhostroutes = IndexAdd(@, {routeHost(obj)}, metadata(obj), obj)]
      [] obj.kind = "Secret" ->
            [c EXCEPT !.secrets = Put(@, metadata(obj), obj)]
      [] obj.kind = "Service" ->
            [c EXCEPT !.services = Put(@, metadata(obj), obj)]
      [] OTHER -> c

RECURSIVE cacheOnDelete(_, _)
cacheOnDelete(c, obj) ==
    CASE obj.kind = "Ingress" ->
            [c EXCEPT !.ingresses = Del(@, metadata(obj)),
                      !.vhosts = IndexDel(@, ingressHosts(obj), metadata(obj))]
      [] obj.kind = "IngressRoute" ->
            [c EXCEPT !.routes = Del(@, metadata(obj)),
                      !.vhostroutes = IndexDel(@, {routeHost(obj)}, metadata(obj))]
      [] obj.kind = "Secret" ->
            [c EXCEPT !.secrets = Del(@, metadata(obj))]
      [] obj.kind = "Service" ->
            [c EXCEPT !.services = Del(@, metadata(obj))]
      [] obj.kind = "DeletedFinalStateUnknown" -> cacheOnDelete(c, obj.Obj)
      [] OTHER -> c

\* An Ingress or IngressRoute leaves the host indexes of its old hosts before
\* it enters those of its new ones.
cacheOnUpdate(c, oldObj, newObj) ==
    IF oldObj.kind \in {"Ingress", "IngressRoute"}
    THEN cacheOnAdd(cacheOnDelete(c, oldObj), newObj)
    ELSE cacheOnAdd(c, newObj)


(***************************************************************************)
(* The Translator and its caches.                                          *)
(***************************************************************************)

\* The configurations a Translator is started with.
Configs ==
    { [IngressClass |-> "", HTTPAddress |-> "", HTTPPort |-> 0, HTTPAccessLog |-> "",
       HTTPSAddress |-> "", HTTPSPort |-> 0, HTTPSAccessLog |-> "",
       UseProxyProto |-> FALSE] }

NewTranslator(cfg) ==
    [cfg |-> cfg,
     cache |-> NewTranslatorCache,
     clusters |-> EmptyMap,     \* ClusterCache: the clusters by name
     listeners |-> EmptyMap,    \* ListenerCache: the listeners by name
     lversion |-> 0,            \* ListenerCache.Cond: the version
     http |-> EmptyMap,         \* VirtualHostCache.HTTP: the virtual hosts by name
     https |-> EmptyMap,        \* VirtualHostCache.HTTPS
     vversion |-> 0]            \* VirtualHostCache.Cond: the version

\* Cond.Notify (spec 4.4): bumps the version and wakes the watchers.
ListenerCacheNotify(t) == [t EXCEPT !.lversion = @ + 1]

VirtualHostCacheNotify(t) == [t EXCEPT !.vversion = @ + 1]

\* listenerCache.Add (spec 4.4): replaces by name.
RECURSIVE listenerCacheAdd(_, _)
listenerCacheAdd(m, ls) ==
    IF ls = <<>> THEN m ELSE listenerCacheAdd(Put(m, Head(ls).name, Head(ls)), Tail(ls))

\* listenerCache.Remove (spec 4.4): unknown names are tolerated.
RECURSIVE listenerCacheRemove(_, _)
listenerCacheRemove(m, names) ==
    IF names = <<>> THEN m ELSE listenerCacheRemove(Del(m, Head(names)), Tail(names))

\* part_001:142-147
ingressClass(t) ==
    IF t.cfg.IngressClass # "" THEN t.cfg.IngressClass ELSE DEFAULT_INGRESS_CLASS

\* listener.go:182-205, 274-297
httpAddress(t) ==
    IF t.cfg.HTTPAddress # "" THEN t.cfg.HTTPAddress ELSE DEFAULT_HTTP_LISTENER_ADDRESS

httpPort(t) == IF t.cfg.HTTPPort # 0 THEN t.cfg.HTTPPort ELSE DEFAULT_HTTP_LISTENER_PORT

httpAccessLog(t) ==
    IF t.cfg.HTTPAccessLog # "" THEN t.cfg.HTTPAccessLog ELSE DEFAULT_HTTP_ACCESS_LOG

httpsAddress(t) ==
    IF t.cfg.HTTPSAddress # "" THEN t.cfg.HTTPSAddress ELSE DEFAULT_HTTPS_LISTENER_ADDRESS

httpsPort(t) == IF t.cfg.HTTPSPort # 0 THEN t.cfg.HTTPSPort ELSE DEFAULT_HTTPS_LISTENER_PORT

httpsAccessLog(t) ==
    IF t.cfg.HTTPSAccessLog # "" THEN t.cfg.HTTPSAccessLog ELSE DEFAULT_HTTPS_ACCESS_LOG

\* listener.go:310-322
socketaddress(address, port) == [address |-> address, port |-> port]

\* listener.go:347-384: the http connection manager; what varies is the route
\* configuration it fetches and the access log path.
httpfilter(routename, accessLogPath) ==
    [name |-> "envoy.http_connection_manager", route_config_name |-> routename,
     access_log |-> accessLogPath]

\* listener.go:324-345
tlscontext(secret, tlsMinProtoVersion, alpnprotos) ==
    [TlsMinimumProtocolVersion |-> tlsMinProtoVersion,
     CertificateChain |-> secret.data[TLSCertKey],
     PrivateKey |-> secret.data[TLSPrivateKeyKey],
     AlpnProtocols |-> alpnprotos]

\* listener.go:397-405 and 248-257: a filter chain; SniDomains and TlsContext
\* are <<>> on the chain of ingress_http.
FilterChain(sni, tls, filters, useproxy) ==
    [SniDomains |-> sni, TlsContext |-> tls, Filters |-> filters, UseProxyProto |-> useproxy]

filterchain(useproxy, filters) == FilterChain(<<>>, <<>>, filters, useproxy)

Listener(name, address, chains) ==
    [name |-> name, address |-> address, FilterChains |-> chains]

\* The result of a recompute*0: the listeners to add, the names to remove.
Refresh(l) ==
    IF Len(l.FilterChains) = 0
    THEN [add |-> <<>>, remove |-> <<l.name>>]
    ELSE [add |-> <<l>>, remove |-> <<>>]

\* Every Ingress is allowed on ingress_http.
httpAllowedAlways(i) == TRUE

\* annotations (spec 6): allow-http=false keeps the Ingress off ingress_http.
httpAllowed(i) ==
    ~(annotationAllowHTTP \in DOMAIN i.annotations /\ i.annotations[annotationAllowHTTP] = "false")

\* listener.go:302-308
validTLSIngress(i) == Len(i.tls) # 0

\* listener.go:124-151
recomputeListener0(t, ingresses) ==
    LET valid == Cardinality({k \in DOMAIN ingresses : httpAllowed(ingresses[k])})
        chains == IF valid > 0
                  THEN <<filterchain(t.cfg.UseProxyProto,
                                     <<httpfilter(ENVOY_HTTP_LISTENER, httpAccessLog(t))>>)>>
                  ELSE <<>>
    IN  Refresh(Listener(ENVOY_HTTP_LISTENER, socketaddress(httpAddress(t), httpPort(t)), chains))

\* listener.go:156-178
recomputeListenerIngressRoute0(t, routes) ==
    LET chains == IF Cardinality(DOMAIN routes) > 0
                  THEN <<filterchain(t.cfg.UseProxyProto,
                                     <<httpfilter(ENVOY_HTTP_LISTENER, httpsAccessLog(t))>>)>>
                  ELSE <<>>
    IN  Refresh(Listener(ENVOY_HTTP_LISTENER, socketaddress(httpAddress(t), httpPort(t)), chains))

\* listener.go:238-247
tlsMinProtoVer(i) ==
    LET v == IF annotationTLSMinimumProtocolVersion \in DOMAIN i.annotations
             THEN i.annotations[annotationTLSMinimumProtocolVersion] ELSE ""
    IN  CASE v = "1.3" -> "TLSv1_3" [] v = "1.2" -> "TLSv1_2" [] OTHER -> "TLSv1_1"

\* (mutant) the Secret is looked up by its name alone, in whatever namespace.
tlsFilterChainsAnyNamespace(t, i, secrets) ==
    LET filters == <<httpfilter(ENVOY_HTTPS_LISTENER, httpsAccessLog(t))>>
        named(tls) == {md \in DOMAIN secrets : md[2] = tls.secretName}
        chain(tls) ==
            IF named(tls) = {} THEN <<>>
            ELSE LET md == CHOOSE k \in named(tls) : k[1] # i.namespace \/ named(tls) = {k}
                 IN  IF ~(TLSCertKey \in DOMAIN secrets[md].data
                           /\ TLSPrivateKeyKey \in DOMAIN secrets[md].data) THEN <<>>
                     ELSE <<FilterChain(tls.hosts,
                                        <<tlscontext(secrets[md], tlsMinProtoVer(i), <<"h2", "http/1.1">>)>>,
                                        filters, t.cfg.UseProxyProto)>>
    IN  Flatten([n \in 1..Len(i.tls) |-> chain(i.tls[n])])

\* (mutant) the first TLS spec without a usable Secret ends the Ingress:
\* none of its TLS specs gets a filter chain.
tlsFilterChainsBreak(t, i, secrets) ==
    LET filters == <<httpfilter(ENVOY_HTTPS_LISTENER, httpsAccessLog(t))>>
        usable(tls) ==
            LET md == <<i.namespace, tls.secretName>>
            IN  /\ md \in DOMAIN secrets
                /\ TLSCertKey \in DOMAIN secrets[md].data
                /\ TLSPrivateKeyKey \in DOMAIN secrets[md].data
    IN  IF \A n \in 1..Len(i.tls) : usable(i.tls[n])
        THEN [n \in 1..Len(i.tls) |->
                 FilterChain(i.tls[n].hosts,
                             <<tlscontext(secrets[<<i.namespace, i.tls[n].secretName>>],
                                          tlsMinProtoVer(i), <<"h2", "http/1.1">>)>>,
                             filters, t.cfg.UseProxyProto)]
        ELSE <<>>

\* listener.go:226-259: the filter chains of one Ingress, one per TLS spec
\* whose secret exists with a certificate and a key.
tlsFilterChains(t, i, secrets) ==
    LET filters == <<httpfilter(ENVOY_HTTPS_LISTENER, httpsAccessLog(t))>>
        chain(tls) ==
            LET md == <<i.namespace, tls.secretName>>
            IN  IF md \notin DOMAIN secrets THEN <<>>
                ELSE IF ~(TLSCertKey \in DOMAIN secrets[md].data
                          /\ TLSPrivateKeyKey \in DOMAIN secrets[md].data) THEN <<>>
                ELSE <<FilterChain(tls.hosts,
                                   <<tlscontext(secrets[md], tlsMinProtoVer(i), <<"h2", "http/1.1">>)>>,
                                   filters, t.cfg.UseProxyProto)>>
    IN  Flatten([n \in 1..Len(i.tls) |-> chain(i.tls[n])])

\* listener.go:212-270; ord is the order in which range visits the map.
recomputeTLSListener0(t, ingresses, secrets, ord) ==
    LET visited == RangeValues(ingresses, ord)
        chains == Flatten([n \in 1..Len(visited) |->
                      IF validTLSIngress(visited[n])
                      THEN tlsFilterChains(t, visited[n], secrets) ELSE <<>>])
    IN  Refresh(Listener(ENVOY_HTTPS_LISTENER, socketaddress(httpsAddress(t), httpsPort(t)), chains))

\* listener.go:86-91, 102-107, 114-118: Add, Remove, and Notify if either
\* list is not empty.
applyListeners(t, add, remove) ==
    LET t1 == [t EXCEPT !.listeners = listenerCacheRemove(listenerCacheAdd(@, add), remove)]
    IN  IF Len(add) > 0 \/ Len(remove) > 0 THEN ListenerCacheNotify(t1) ELSE t1

\* listener.go:80-92
recomputeListeners(t, ingresses, secrets, ord) ==
    LET r == recomputeListener0(t, ingresses)
        ssl == recomputeTLSListener0(t, ingresses, secrets, ord)
    IN  applyListeners(t, r.add \o ssl.add, r.remove \o ssl.remove)

\* (mutant) the ingress_https listener is recomputed as well, from no
\* Ingress, and so removed.
recomputeListenersIngressRouteTLS(t, routes, secrets) ==
    LET r == recomputeListenerIngressRoute0(t, routes)
    IN  applyListeners(t, r.add, r.remove \o <<ENVOY_HTTPS_LISTENER>>)

\* listener.go:96-108
recomputeListenersIngressRoute(t, routes, secrets) ==
    LET r == recomputeListenerIngressRoute0(t, routes)
    IN  applyListeners(t, r.add, r.remove)

\* (mutant) a Secret event leaves the listeners as they are.
recomputeTLSListenerSkip(t, ingresses, secrets, ord) == t

\* listener.go:112-119
recomputeTLSListener(t, ingresses, secrets, ord) ==
    LET ssl == recomputeTLSListener0(t, ingresses, secrets, ord)
    IN  applyListeners(t, ssl.add, ssl.remove)


(***************************************************************************)
(* Names of bounded length (part_001:254-300).                             *)
(***************************************************************************)

\* fmt.Sprintf("%x", sha256.Sum256([]byte(r))), for the strings that are
\* joined from the parts of the model.
Sum256Hex(r) ==
    CASE r = "" ->
             "e3b0c44298fc1c149afbf4c8996fb92427ae41e4649b934ca495991b7852b855"
      [] r = "/" ->
             "8a5edab282632443219e051e4ade2d1d5bbc671c781051bf1437897cbdfea0f1"
      [] r = "a" ->
             "ca978112ca1bbdcafac231b39a23dc4da786eff8147c4e72b9807785afee48bb"
      [] r = "//" ->
             "a2c2339691fc48fbd14fb307292dff3e21222712d9240810742d7df0c6d74dfb"
      [] r = "/a" ->
             "6a50dc8584134c7de537c0052ff6d236bf874355e050c90523e0c5ff2a543a28"
      [] r = "a/" ->
             "b3dda5b674f9ce730a37dee0a33bb31efeea2335f517774f6ea133d448df2178"
      [] r = "//a" ->
             "5c8a2365a30a1b8dfe20bf8559afbfa09dee41800a87a77147fc820f2a63c2b7"
      [] r = "/a/" ->
             "8290412f79ac2bb6e927f2d4a78c43cab07e1190f511a2600fac68f72b2acba4"
      [] r = "a//" ->
             "e6b931c338b7590c5dbaf5b2f835c7a05b666cbc8e0dba2ff503df7a3f8c249c"
      [] r = "a/a" ->
             "0164b8258be6d35fe318f7bdd2880b7e86edf2b9d1828043a492b92400b89e08"
      [] r = "/a/a" ->
             "9c907ad83e0ab4103bf8bf8a8e0d950d807846157f0d0564018382bbd4b8de81"
      [] r = "a//a" ->
             "f880e70e077bbf0046a9870db7db21aee6070a80c426b11fec83f81a7f279e39"
      [] r = "a/a/" ->
             "f2ddae27e50743d131afb2e90f638daf112e903d76b037c0585fdbf896871fbd"
      [] r = "a/a/a" ->
             "6e72d89f2f0b4b7b2cb0111bf9cf8a79f2c2ff1686faf584cb6a874372a01e51"
      [] r = "abcdefghijkl" ->
             "d682ed4ca4d989c134ec94f1551e1ec580dd6d5a6ecde9f3d35e6e4a717fbde4"
      [] r = "/abcdefghijkl" ->
             "adfa755480fb6e1412ac0d368369c6d27c4223d15b40d9f2c49045389070e883"
      [] r = "abcdefghijkl/" ->
             "1658797f3245e323af433428de522137881753d9249cd6a24e37036c083bc987"
      [] r = "//abcdefghijkl" ->
             "ff5e3c1fb0a6bbd42e5829b442bd1d6c6cdf8a60718dce4d52c814255c333524"
      [] r = "/abcdefghijkl/" ->
             "4b3a6f07ebdd6a766f89bfa7a2c5c72adcaea4efc2706156c1ff784c083468a8"
      [] r = "a/abcdefghijkl" ->
             "d4987c0a5e1c28062fdafaf206c237f770810cb4d8b27115a1aab9714f8178dc"
      [] r = "abcdefghijkl//" ->
             "5f3ef10397e3477577e2397045ad945422258f276b51e54fdacfc696d3a57c11"
      [] r = "abcdefghijkl/a" ->
             "2dd933e3adb58bf4d2e5a32b588f29401334073763a01956e4edac705ec97f4d"
      [] r = "/a/abcdefghijkl" ->
             "6381e234c8b53735a08ec40ceb52905c7d03f773d503c34aa38521b7f53763c3"
      [] r = "/abcdefghijkl/a" ->
             "d9d796c8e6453c549090a9e6e73056af7b792faff8f1453bf33300d6e054d5b3"
      [] r = "a//abcdefghijkl" ->
             "2b1fcba95b7ebc32612de28eb5872c05ef60d81a28d81667fbc2d29a347223c9"
      [] r = "a/abcdefghijkl/" ->
             "e64f5b939e0f293cf60be0991255a29f5e022f4503cd7db57f9a04d926c3e1b9"
      [] r = "abcdefghijkl//a" ->
             "970d39e6a645483cbdb81b1b66c21a2915076802b78e68b71cdf409edb3ebe3c"
      [] r = "abcdefghijkl/a/" ->
             "4703438bee4c1c08b4c343de74bc175d061b425d8007df0adf55a963a3ec3719"
      [] r = "a/a/abcdefghijkl" ->
             "7a65e78320c8e708455d6f78ec57bccd47c8e1605923d5edef0d2410030fead0"
      [] r = "a/abcdefghijkl/a" ->
             "bea7d9304bd90e19a69fa571eea44691abdfcc65e28d97de33b165beed3f0e85"
      [] r = "abcdefghijkl/a/a" ->
             "d2175119560ae2e4fc3e32126c1566df4ceba8d84baad8816d2ad46f2f10e026"
      [] r = "abcdefghijkl/abcdefghijkl" ->
             "df3e8d6e43057a5284b07549533ed0b54248582235d9e04bc616e888ab789fa0"
      [] r = "/abcdefghijkl/abcdefghijkl" ->
             "6c328bb517119061d5fa10a9410594180ef968ddb8ce1c88ca3ea4d94a5e6699"
      [] r = "abcdefghijkl//abcdefghijkl" ->
             "d55d424fa424cddc74e96f0b17da8a5f491881c6c887af6f0d57b0e6260f205c"
      [] r = "abcdefghijkl/abcdefghijkl/" ->
             "7bea1c104c96d6d77ef9c736e51b093ad4ec21afdd88e253c38741fdb2091f3a"
      [] r = "a/abcdefghijkl/abcdefghijkl" ->
             "f996446d0bca8f08106b13dd88cd2dcc68424676ed067fa462731bf9227d9ce5"
      [] r = "abcdefghijkl/a/abcdefghijkl" ->
             "4fbc7d044b58851d0fac1d646781e26f2ae206ba9fcf284f8f67a325293f540c"
      [] r = "abcdefghijkl/abcdefghijkl/a" ->
             "917ea5d5d000765395249527a6f4189deb4b39b98bca9d07b89df565d6a63dcd"
      [] r = "abcdefghijkl/abcdefghijkl/abcdefghijkl" ->
             "e059c8d82054c7a1fc97936c17933f646c6ac8c734fc3356350f03fe2f95a47d"
      [] r = "my-very-very-long-service-host-name.subdomain.boring-dept.m" ->
             "d544f67356b5a2fe32beda8078a3a859c69e3d7a409baa4ed57954a26a2db534"
      [] r = "my-very-very-long-service-host-name.subdomain.boring-dept.my" ->
             "ab29c96ab085d17abfae444c6c1b5bf9286a04bc410163e1816865e6acd14e8d"
      [] r = "my-very-very-long-service-host-name.subdomain.boring-dept.my.company" ->
             "d31bb322ca62bb395acad00b3cbf45a3aa1010ca28dca7cddb4f7db786faf314"

\* part_001:283-293
truncate(l, s, suffix) ==
    IF l >= Len(s) THEN s
    ELSE IF l <= Len(suffix)
         THEN SubSeq(suffix, 1, IF l > Len(suffix) THEN Len(suffix) ELSE l)
         ELSE SubSeq(s, 1, l - Len(suffix) - 1) \o "-" \o suffix

\* The joined parts, however long.
hashnameJoined(l, s) ==
    LET Join[k \in 0..Len(s)] ==
            IF k = 0 THEN "" ELSE IF k = 1 THEN s[1] ELSE Join[k - 1] \o "/" \o s[k]
    IN  Join[Len(s)]

\* part_001:260-279
hashname(l, s) ==
    LET shorthash == 6
        join(t) == LET Join[k \in 0..Len(t)] ==
                           IF k = 0 THEN "" ELSE IF k = 1 THEN t[1] ELSE Join[k - 1] \o "/" \o t[k]
                   IN  Join[Len(t)]
        r == join(s)
        hash == Sum256Hex(r)
        \* the parts after the iterations n = Len(s) - 1 down to n = k of the loop
        After[k \in 1..(Len(s) + 1)] ==
            IF k = Len(s) + 1 THEN s
            ELSE [After[k + 1] EXCEPT
                     ![k] = truncate(l \div Len(s), After[k + 1][k], SubSeq(hash, 1, shorthash))]
        \* the iterations that return
        returns == {k \in 1..Len(s) : l > Len(join(After[k]))}
    IN  IF l > Len(r) THEN r
        ELSE IF returns # {}
             THEN join(After[CHOOSE k \in returns : \A j \in returns : j <= k])
             ELSE SubSeq(hash, 1, IF Len(hash) > l THEN l ELSE Len(hash))

(***************************************************************************)
(* The VirtualHost cache (spec 4.3, per-host VirtualHost recomputation;    *)
(* the expected results of virtualhost_test.go and of the e2e tests).      *)
(***************************************************************************)

\* "{namespace}/{serviceName}/{port}"
clustername(namespace, serviceName, port) ==
    namespace \o "/" \o serviceName \o "/" \o ToString(port)

prefixmatch(prefix) == [prefix |-> prefix]

Route(match, action) == [match |-> match, action |-> action]

VirtualHost(name, domains, routes) == [name |-> name, domains |-> domains, routes |-> routes]

\* The name and the domains of the VirtualHost of a host; port is "80" or
\* "443".  The name is the host, and hashname(60, host) for a host of more
\* than 60 characters (spec 4.3; virtualhost_test.go:397-422).
virtualhost(vhost, port, routes) ==
    VirtualHost(IF Len(vhost) > 60 THEN hashname(60, <<vhost>>) ELSE vhost,
                IF vhost = "*" THEN <<"*">> ELSE <<vhost, vhost \o ":" \o port>>, routes)

\* Stable sort, longest match first.
RECURSIVE insertRoute(_, _)
insertRoute(sorted, r) ==
    IF sorted = <<>> THEN <<r>>
    ELSE IF Len(r.match.prefix) > Len(Head(sorted).match.prefix)
         THEN <<r>> \o sorted
         ELSE <<Head(sorted)>> \o insertRoute(Tail(sorted), r)

\* The routes as they were collected, not sorted.
routesAsCollected(routes) == routes

RECURSIVE longestRouteFirst(_)
longestRouteFirst(routes) ==
    IF routes = <<>> THEN <<>>
    ELSE insertRoute(longestRouteFirst(SubSeq(routes, 1, Len(routes) - 1)),
                     routes[Len(routes)])

\* Every Ingress passes for one with a TLS spec for the host.
validTLSSpecAlways(vhost, i) == TRUE

\* virtualhost_test.go:689-747: some TLS spec of the Ingress names the host
\* and a secret.
\* (mutant) any TLS spec with a secret name counts, whatever hosts it lists.
validTLSSpecAnyHost(vhost, i) ==
    \E n \in 1..Len(i.tls) : i.tls[n].secretName # ""

validTLSSpecforVhost(vhost, i) ==
    \E n \in 1..Len(i.tls) :
        /\ i.tls[n].secretName # ""
        /\ vhost \in SeqRange(i.tls[n].hosts)

\* time.ParseDuration, for a decimal number followed by the unit s, m or h:
\* the seconds, <<>> for any other string.
parseDuration(s) ==
    LET digits == "0123456789"
        char(k) == SubSeq(s, k, k)
        isDigit(c) == \E d \in 1..10 : SubSeq(digits, d, d) = c
        value(c) == (CHOOSE d \in 1..10 : SubSeq(digits, d, d) = c) - 1
        n == Cardinality({k \in 1..Len(s) : \A j \in 1..k : isDigit(char(j))})
        Val[k \in 0..n] == IF k = 0 THEN 0 ELSE 10 * Val[k - 1] + value(char(k))
        unit == SubSeq(s, n + 1, Len(s))
    IN  IF n = 0 THEN <<>>
        ELSE CASE unit = "s" -> <<Val[n]>>
               [] unit = "m" -> <<60 * Val[n]>>
               [] unit = "h" -> <<3600 * Val[n]>>
               [] OTHER -> <<>>

\* The annotation is taken for absent whatever it holds.
requesttimeoutUnset(i) == <<>>

\* annotations (spec 4.3): request-timeout of the Ingress, in seconds: <<>>
\* when the annotation is absent, <<0>> (no timeout) for "infinity" and for
\* a value that does not parse.
requesttimeout(i) ==
    IF annotationRequestTimeout \notin DOMAIN i.annotations THEN <<>>
    ELSE LET v == i.annotations[annotationRequestTimeout]
         IN  IF v = "infinity" \/ parseDuration(v) = <<>> THEN <<0>> ELSE parseDuration(v)

\* virtualhost_test.go:750-770: clusteraction, and clusteractiontimeout when
\* a timeout is given (<<>>: none).
clusteractiontimeout(name, timeout) ==
    IF timeout = <<>> THEN [cluster |-> name] ELSE [cluster |-> name, timeout |-> timeout[1]]

\* The routes an Ingress contributes to a host: its default backend to "*",
\* and the paths of its rules for the host (a rule without host is for "*").
ingressRoutes(vhost, i, withBackend) ==
    LET route(p) == Route(prefixmatch(p.path),
                          clusteractiontimeout(clustername(i.namespace, p.backend.serviceName,
                                                           p.backend.servicePort),
                                               requesttimeout(i)))
        default == IF withBackend /\ vhost = "*" /\ i.backend # <<>>
                   THEN <<route(HTTPIngressPath("/", i.backend[1]))>> ELSE <<>>
        ofRule(rule) ==
            IF (IF rule.host = "" THEN "*" ELSE rule.host) = vhost
            THEN [n \in 1..Len(rule.paths) |-> route(rule.paths[n])] ELSE <<>>
    IN  default \o Flatten([n \in 1..Len(i.rules) |-> ofRule(i.rules[n])])

\* The action of an HTTPS redirect.
redirecthttps == [redirect |-> [https_redirect |-> TRUE]]

\* annotations (spec 6): force-ssl-redirect=true.
tlsRequired(i) ==
    /\ annotationForceSSLRedirect \in DOMAIN i.annotations
    /\ i.annotations[annotationForceSSLRedirect] = "true"

\* The routes an Ingress contributes to the HTTP VirtualHost of a host, with
\* no regard to force-ssl-redirect.
httpRoutesNoRedirect(vhost, i) == ingressRoutes(vhost, i, TRUE)

\* The routes an Ingress contributes to the HTTP VirtualHost of a host: all
\* its routes are redirects when it carries force-ssl-redirect=true.
httpRoutes(vhost, i) ==
    LET rs == ingressRoutes(vhost, i, TRUE)
    IN  IF tlsRequired(i)
        THEN [n \in 1..Len(rs) |-> Route(rs[n].match, redirecthttps)]
        ELSE rs

\* virtualHostCache.Add / Remove by name.
vhostRefresh(m, vv) == IF Len(vv.routes) > 0 THEN Put(m, vv.name, vv) ELSE Del(m, vv.name)

\* recomputevhost: the HTTPS and the HTTP VirtualHost of vhost from the
\* Ingresses given.
recomputevhost(t, vhost, ingresses, ord) ==
    LET visited == RangeValues(ingresses, ord)
        tlsroutes == Flatten([n \in 1..Len(visited) |->
                        IF validTLSSpecforVhost(vhost, visited[n])
                        THEN ingressRoutes(vhost, visited[n], FALSE) ELSE <<>>])
        allowed == \A n \in 1..Len(visited) : httpAllowed(visited[n])
        routes == IF allowed
                  THEN Flatten([n \in 1..Len(visited) |-> httpRoutes(vhost, visited[n])])
                  ELSE <<>>
    IN  [t EXCEPT !.https = vhostRefresh(@, virtualhost(vhost, "443", longestRouteFirst(tlsroutes))),
                  !.http = vhostRefresh(@, virtualhost(vhost, "80", longestRouteFirst(routes)))]

\* 100 split evenly over the services, whatever weights they specify.
weightedClustersEven(r, route) ==
    LET n == Len(route.services)
    IN  [weighted |->
            [k \in 1..n |->
                [name |-> clustername(r.namespace, route.services[k].name, route.services[k].port),
                 weight |-> (100 \div n) + (IF k <= 100 % n THEN 1 ELSE 0)]]]

\* The weighted clusters of an IngressRoute route: a weight that is
\* specified is passed through, the services without one share 100 minus
\* the sum of the specified weights evenly, the remainder going to the
\* earliest of them.
weightedClusters(r, route) ==
    LET n == Len(route.services)
        unset == {k \in 1..n : route.services[k].weight = <<>>}
        Sum[k \in 0..n] == IF k = 0 THEN 0
                           ELSE Sum[k - 1] + (IF k \in unset THEN 0 ELSE route.services[k].weight[1])
        totalWeight == 100 - Sum[n]
        u == Cardinality(unset)
        rank(k) == Cardinality({j \in unset : j <= k})
    IN  [weighted |->
            [k \in 1..n |->
                [name |-> clustername(r.namespace, route.services[k].name, route.services[k].port),
                 weight |-> IF k \in unset
                            THEN (totalWeight \div u) + (IF rank(k) <= totalWeight % u THEN 1 ELSE 0)
                            ELSE route.services[k].weight[1]]]]

\* recomputevhostIngressRoute: the HTTP VirtualHost of vhost from the
\* IngressRoutes given.  (One IngressRoute name exists in the model, so
\* range has a single order in which to visit the map.)
recomputevhostIngressRoute(t, vhost, routes) ==
    LET keys == CHOOSE q \in [1..Cardinality(DOMAIN routes) -> DOMAIN routes] :
                    \A a, b \in DOMAIN q : a # b => q[a] # q[b]
        ofRoute(r) == [n \in 1..Len(r.routes) |->
                         Route(prefixmatch(r.routes[n].match), weightedClusters(r, r.routes[n]))]
        rs == Flatten([k \in 1..Len(keys) |-> ofRoute(routes[keys[k]])])
    IN  [t EXCEPT !.http = vhostRefresh(@, virtualhost(vhost, "80", longestRouteFirst(rs)))]


(***************************************************************************)
(* The Cluster cache (spec 4.3, Service; the expected results of           *)
(* part_002:35-372).                                                       *)
(***************************************************************************)

\* The name of the Service with no regard to the port.
servicenameOfMeta(meta, portname) == meta.namespace \o "/" \o meta.name

\* part_001:314-324: namespace and name, and the port name when there is
\* one, joined by "/".
servicename(meta, portname) ==
    LET sn == <<meta.namespace, meta.name>> \o (IF portname # "" THEN <<portname>> ELSE <<>>)
        Join[k \in 1..Len(sn)] == IF k = 1 THEN sn[1] ELSE Join[k - 1] \o "/" \o sn[k]
    IN  Join[Len(sn)]

\* v2.Cluster: the name and the service name of the EdsClusterConfig.
Cluster(name, serviceName) ==
    [name |-> name, eds_cluster_config |-> [service_name |-> serviceName]]

\* The Clusters of newsvc enter the cache, none leaves it.
recomputeServiceAddOnly(t, oldsvc, newsvc) ==
    LET ofPort(svc, p) ==
            LET sn == servicename(svc, p.name)
            IN  <<Cluster(clustername(svc.namespace, svc.name, p.port), sn)>>
                \o (IF p.name # ""
                    THEN <<Cluster(svc.namespace \o "/" \o svc.name \o "/" \o p.name, sn)>>
                    ELSE <<>>)
        new == IF newsvc = <<>> THEN <<>>
               ELSE Flatten([n \in 1..Len(newsvc[1].ports) |-> ofPort(newsvc[1], newsvc[1].ports[n])])
        names == {new[n].name : n \in 1..Len(new)}
    IN  [t EXCEPT !.clusters =
            [x \in (DOMAIN t.clusters) \cup names |->
                IF x \in names THEN (CHOOSE c \in SeqRange(new) : c.name = x)
                ELSE t.clusters[x]]]

\* recomputeService: the Clusters of oldsvc leave the cache and those of
\* newsvc enter it, one by the number of each port and one more by its name
\* when it has one (<<>> is nil, <<svc>> a Service).
recomputeService(t, oldsvc, newsvc) ==
    LET ofPort(svc, p) ==
            LET sn == servicename(svc, p.name)
            IN  <<Cluster(clustername(svc.namespace, svc.name, p.port), sn)>>
                \o (IF p.name # ""
                    THEN <<Cluster(svc.namespace \o "/" \o svc.name \o "/" \o p.name, sn)>>
                    ELSE <<>>)
        ofService(svc) == Flatten([n \in 1..Len(svc.ports) |-> ofPort(svc, svc.ports[n])])
        old == IF oldsvc = <<>> THEN <<>> ELSE ofService(oldsvc[1])
        new == IF newsvc = <<>> THEN <<>> ELSE ofService(newsvc[1])
        names(cs) == {cs[n].name : n \in 1..Len(cs)}
        kept == (DOMAIN t.clusters) \ names(old)
    IN  [t EXCEPT !.clusters =
            [x \in kept \cup names(new) |->
                IF x \in names(new)
                THEN (CHOOSE c \in SeqRange(new) : c.name = x)
                ELSE t.clusters[x]]]

(***************************************************************************)
(* The Translator's handlers (part_001).                                   *)
(***************************************************************************)

\* part_001:150-151, 184-185: the ingress class annotation is set, and not
\* to the class of this Translator.
otherClass(t, i) ==
    /\ annotationIngressClass \in DOMAIN i.annotations
    /\ i.annotations[annotationIngressClass] # ingressClass(t)

\* part_001:168-175: the loop of addIngress over the rules.
RECURSIVE addIngressRules(_, _, _)
addIngressRules(t, rules, ord) ==
    IF rules = <<>> THEN t
    ELSE LET host == IF Head(rules).host = "" THEN "*" ELSE Head(rules).host
         IN  addIngressRules(recomputevhost(t, host, At(t.cache.vhosts, host), ord),
                             Tail(rules), ord)

\* part_001:149-176
addIngress(t, i, ord) ==
    IF otherClass(t, i) THEN t
    ELSE LET t1 == recomputeListeners(t, t.cache.ingresses, t.cache.secrets, ord)
             t2 == IF i.backend # <<>>
                   THEN recomputevhost(t1, "*", At(t1.cache.vhosts, "*"), ord)
                   ELSE t1
         IN  addIngressRules(t2, i.rules, ord)

\* part_001:200-207: the loop of removeIngress over the rules; the host
\* recomputed is rule.Host as written, the Ingresses are those of host.
RECURSIVE removeIngressRules(_, _, _)
removeIngressRules(t, rules, ord) ==
    IF rules = <<>> THEN t
    ELSE LET host == IF Head(rules).host = "" THEN "*" ELSE Head(rules).host
         IN  removeIngressRules(
                 recomputevhost(t, Head(rules).host, At(t.cache.vhosts, host), ord),
                 Tail(rules), ord)

\* part_001:183-208
removeIngress(t, i, ord) ==
    IF otherClass(t, i) THEN t
    ELSE LET t1 == recomputeListeners(t, t.cache.ingresses, t.cache.secrets, ord)
             t2 == IF i.backend # <<>>
                   THEN recomputevhost(t1, "*", EmptyMap, ord)
                   ELSE t1
         IN  removeIngressRules(t2, i.rules, ord)

\* part_001:178-181
updateIngress(t, oldIng, newIng, ord) ==
    addIngress(removeIngress(t, oldIng, ord), newIng, ord)

\* part_001:210-216
\* (mutant) a Secret recomputes both listeners, as an Ingress does.
addSecretBoth(t, s, ord) == recomputeListeners(t, t.cache.ingresses, t.cache.secrets, ord)

addSecret(t, s, ord) == recomputeTLSListener(t, t.cache.ingresses, t.cache.secrets, ord)

removeSecret(t, s, ord) == recomputeTLSListener(t, t.cache.ingresses, t.cache.secrets, ord)

\* part_001:218-232; the deferred Notify runs last.
addIngressRoute(t, r) ==
    LET t1 == recomputeListenersIngressRoute(t, t.cache.routes, t.cache.secrets)
        host == routeHost(r)
    IN  VirtualHostCacheNotify(
            recomputevhostIngressRoute(t1, host, At(t1.cache.vhostroutes, host)))

\* part_001:234-247
removeIngressRoute(t, r) ==
    LET t1 == recomputeListenersIngressRoute(t, t.cache.routes, t.cache.secrets)
        host == routeHost(r)
    IN  VirtualHostCacheNotify(
            recomputevhostIngressRoute(t1, host, At(t1.cache.vhostroutes, host)))

\* part_001:249-252
updateIngressRoute(t, oldIng, newIng) ==
    addIngressRoute(removeIngressRoute(t, oldIng), newIng)

\* (mutant) an OnAdd that notifies the VirtualHost watchers for an object of
\* an unexpected type as well.
OnAddNotifyUnknown(t, obj, ord) ==
    LET t0 == [t EXCEPT !.cache = cacheOnAdd(@, obj)]
    IN  CASE obj.kind = "Service" -> recomputeService(t0, <<>>, <<obj>>)
          [] obj.kind = "Ingress" -> VirtualHostCacheNotify(addIngress(t0, obj, ord))
          [] obj.kind = "Secret" -> addSecret(t0, obj, ord)
          [] obj.kind = "IngressRoute" -> addIngressRoute(t0, obj)
          [] OTHER -> VirtualHostCacheNotify(t0)

\* part_001:58-73
OnAdd(t, obj, ord) ==
    LET t0 == [t EXCEPT !.cache = cacheOnAdd(@, obj)]
    IN  CASE obj.kind = "Service" -> recomputeService(t0, <<>>, <<obj>>)
          [] obj.kind = "Ingress" -> VirtualHostCacheNotify(addIngress(t0, obj, ord))
          [] obj.kind = "Secret" -> addSecret(t0, obj, ord)
          [] obj.kind = "IngressRoute" -> addIngressRoute(t0, obj)
          [] OTHER -> t0

\* part_001:75-107
OnUpdate(t, oldObj, newObj, ord) ==
    LET t0 == [t EXCEPT !.cache = cacheOnUpdate(@, oldObj, newObj)]
    IN  CASE newObj.kind = "Service" ->
                IF oldObj.kind # "Service" THEN t0
                ELSE recomputeService(t0, <<oldObj>>, <<newObj>>)
          [] newObj.kind = "Ingress" ->
                IF oldObj.kind # "Ingress" THEN t0
                ELSE VirtualHostCacheNotify(updateIngress(t0, oldObj, newObj, ord))
          [] newObj.kind = "Secret" -> addSecret(t0, newObj, ord)
          [] newObj.kind = "IngressRoute" ->
                IF oldObj.kind # "IngressRoute" THEN t0
                ELSE VirtualHostCacheNotify(updateIngressRoute(t0, oldObj, newObj))
          [] OTHER -> t0

\* (mutant) an OnDelete that does not look into a tombstone.
OnDeleteDropTombstone(t, obj, ord) ==
    LET t0 == [t EXCEPT !.cache = cacheOnDelete(@, obj)]
    IN  CASE obj.kind = "Service" -> recomputeService(t0, <<obj>>, <<>>)
          [] obj.kind = "Ingress" -> VirtualHostCacheNotify(removeIngress(t0, obj, ord))
          [] obj.kind = "Secret" -> removeSecret(t0, obj, ord)
          [] obj.kind = "IngressRoute" -> removeIngressRoute(t0, obj)
          [] OTHER -> t0

\* part_001:109-126
RECURSIVE OnDelete(_, _, _)
OnDelete(t, obj, ord) ==
    LET t0 == [t EXCEPT !.cache = cacheOnDelete(@, obj)]
    IN  CASE obj.kind = "Service" -> recomputeService(t0, <<obj>>, <<>>)
          [] obj.kind = "Ingress" -> VirtualHostCacheNotify(removeIngress(t0, obj, ord))
          [] obj.kind = "Secret" -> removeSecret(t0, obj, ord)
          [] obj.kind = "DeletedFinalStateUnknown" -> OnDelete(t0, obj.Obj, ord)
          [] obj.kind = "IngressRoute" -> removeIngressRoute(t0, obj)
          [] OTHER -> t0

(***************************************************************************)
(* The specification of the Translator: the orchestrator library delivers  *)
(* OnAdd for an object that is new (or, on a replay, equal to the one      *)
(* cached), OnUpdate and OnDelete for an object that is cached.            *)
(***************************************************************************)

\* The object cached under the kind and metadata of obj, as a set.
Cached(t, obj) ==
    LET m == CASE obj.kind = "Ingress" -> t.cache.ingresses
               [] obj.kind = "IngressRoute" -> t.cache.routes
               [] obj.kind = "Secret" -> t.cache.secrets
               [] obj.kind = "Service" -> t.cache.services
               [] OTHER -> EmptyMap
    IN  IF metadata(obj) \in DOMAIN m THEN {m[metadata(obj)]} ELSE {}

\* Events are accepted while the versions are below MaxVersion.
Accepting == tr.lversion < MaxVersion /\ tr.vversion < MaxVersion

Init ==
    /\ BufInit
    /\ size = 0
    /\ tr \in {NewTranslator(cfg) : cfg \in Configs}
    /\ resp = <<>>
    /\ last = <<>>

EvOnAdd ==
    /\ Accepting
    /\ \E obj \in Objects, ord \in IterationOrders :
         /\ Cached(tr, obj) \subseteq {obj}
         /\ tr' = OnAdd(tr, obj, ord)
    /\ UNCHANGED <<bufvars, resp, last>>

EvOnUpdate ==
    /\ Accepting
    /\ \E newObj \in Objects, ord \in IterationOrders :
         \E oldObj \in (IF newObj = UnknownObject THEN {UnknownObject} ELSE Cached(tr, newObj)) :
             tr' = OnUpdate(tr, oldObj, newObj, ord)
    /\ UNCHANGED <<bufvars, resp, last>>

EvOnDelete ==
    /\ Accepting
    /\ \E obj \in Objects, ord \in IterationOrders :
         /\ obj = UnknownObject \/ obj \in Cached(tr, obj)
         /\ \/ tr' = OnDelete(tr, obj, ord)
            \/ tr' = OnDelete(tr, DeletedFinalStateUnknown(obj), ord)
    /\ UNCHANGED <<bufvars, resp, last>>

Next == EvOnAdd \/ EvOnUpdate \/ EvOnDelete

\* The events of the objects of a set S.
AddOf(S) ==
    /\ Accepting
    /\ \E obj \in S, ord \in IterationOrders :
         /\ Cached(tr, obj) \subseteq {obj}
         /\ tr' = OnAdd(tr, obj, ord)
    /\ UNCHANGED <<bufvars, resp, last>>

UpdateOf(S) ==
    /\ Accepting
    /\ \E newObj \in S, ord \in IterationOrders :
         \E oldObj \in Cached(tr, newObj) : tr' = OnUpdate(tr, oldObj, newObj, ord)
    /\ UNCHANGED <<bufvars, resp, last>>

DeleteOf(S) ==
    /\ Accepting
    /\ \E obj \in S, ord \in IterationOrders :
         /\ obj \in Cached(tr, obj)
         /\ \/ tr' = OnDelete(tr, obj, ord)
            \/ tr' = OnDelete(tr, DeletedFinalStateUnknown(obj), ord)
    /\ UNCHANGED <<bufvars, resp, last>>

\* The Translator driven by the events of the objects of S alone.
NextOf(S) == AddOf(S) \/ UpdateOf(S) \/ DeleteOf(S)

Spec == Init /\ [][Next]_vars


(***************************************************************************)
(* The discovery server: Fetch, as the e2e tests observe it (part_000).    *)
(***************************************************************************)

\* Events are accepted under FetchSpec while the versions are below this.
MaxFetchVersion == 2

\* e2e.go:34-41
googleApis == "type.googleapis.com/"
typePrefix == googleApis \o "envoy.api.v2."
routeType == typePrefix \o "RouteConfiguration"
listenerType == typePrefix \o "Listener"

TypeURLs == {routeType, listenerType}

\* The resource-name lists of the requests.
ResourceNameLists ==
    { <<>>, <<ENVOY_HTTP_LISTENER>>, <<ENVOY_HTTPS_LISTENER>>,
      <<ENVOY_HTTPS_LISTENER, ENVOY_HTTP_LISTENER>>, <<"other">> }

DiscoveryRequest(typeUrl, names) == [TypeUrl |-> typeUrl, ResourceNames |-> names]

DiscoveryResponse(versionInfo, resources, typeUrl, nonce) ==
    [VersionInfo |-> versionInfo, Resources |-> resources, TypeUrl |-> typeUrl, Nonce |-> nonce]

RouteConfiguration(name, virtualHosts) == [name |-> name, virtual_hosts |-> virtualHosts]

\* The names of the model in ascending order.
SortedNames == <<"*", "a.com", "b.com", ENVOY_HTTP_LISTENER, ENVOY_HTTPS_LISTENER>>

\* The entries of a cache, sorted by name.
Values(m) ==
    LET present(n) == n \in DOMAIN m
        names == SelectSeq(SortedNames, present)
    IN  [k \in 1..Len(names) |-> m[names[k]]]

\* The resources of a type: the two RouteConfigurations, ingress_http then
\* ingress_https, or the Listeners.
ResourcesOf(t, typeUrl) ==
    IF typeUrl = routeType
    THEN << RouteConfiguration(ENVOY_HTTP_LISTENER, Values(t.http)),
            RouteConfiguration(ENVOY_HTTPS_LISTENER, Values(t.https)) >>
    ELSE Values(t.listeners)

\* A filter that lets every resource through.
FilterNone(resources, names) == resources

\* The resources whose name is in the list; all of them for an empty list.
Filter(resources, names) ==
    LET named(r) == r.name \in SeqRange(names)
    IN  IF names = <<>> THEN resources ELSE SelectSeq(resources, named)

\* A nonce that is the version of the cache.
NonceOfVersion(t, typeUrl) == ToString(IF typeUrl = routeType THEN t.vversion ELSE t.lversion)

\* part_000:841-858 (assertRDS): the VersionInfo and the Nonce of every response
\* the tests expect.
VersionInfoOf(t, typeUrl) == "0"

NonceOf(t, typeUrl) == "0"

\* Fetch: one request, one snapshot of the cache of the type.
Fetch(t, req) ==
    DiscoveryResponse(VersionInfoOf(t, req.TypeUrl),
                      Filter(ResourcesOf(t, req.TypeUrl), req.ResourceNames),
                      req.TypeUrl,
                      NonceOf(t, req.TypeUrl))

EvFetch ==
    /\ \E typeUrl \in TypeURLs, names \in ResourceNameLists :
         LET req == DiscoveryRequest(typeUrl, names)
         IN  resp' = <<[req |-> req, resp |-> Fetch(tr, req)]>>
    /\ UNCHANGED <<bufvars, tr, last>>

FetchAccepting == tr.lversion < MaxFetchVersion /\ tr.vversion < MaxFetchVersion

FetchNext ==
    \/ FetchAccepting /\ EvOnAdd
    \/ FetchAccepting /\ EvOnUpdate
    \/ FetchAccepting /\ EvOnDelete
    \/ EvFetch

FetchSpec == Init /\ [][FetchNext]_vars


(***************************************************************************)
(* The specification of weighted routing: the orchestrator library         *)
(* delivers the events of one IngressRoute whose services carry weights.   *)
(***************************************************************************)
WeightSpec == Init /\ [][NextOf(WeightedIngressRoutes)]_vars

(***************************************************************************)
(* The specification of the names: one call of hashname with a limit and   *)
(* parts, or of virtualhost with a host.                                   *)
(***************************************************************************)

\* The limits of hashname are 1..MaxLimit.
MaxLimit == 39

\* virtualhost_test.go:397: a host of 68 characters.
LongHost == "my-very-very-long-service-host-name.subdomain.boring-dept.my.company"

EvHashname ==
    /\ last = <<>>
    /\ \E n \in 0..3 : \E s \in [1..n -> {"", "a", "abcdefghijkl"}], l \in 1..MaxLimit :
          last' = <<[op |-> "hashname", l |-> l, s |-> s, r |-> hashname(l, s)]>>
    /\ UNCHANGED <<bufvars, tr, resp>>

\* The VirtualHost of a host of 59, 60 or 68 characters, or of a shorter one.
EvVirtualhost ==
    /\ last = <<>>
    /\ \E vhost \in {LongHost, SubSeq(LongHost, 1, 60), SubSeq(LongHost, 1, 59), "a.com", "*"},
          port \in {"80", "443"} :
          last' = <<[op |-> "virtualhost", vhost |-> vhost, port |-> port,
                     r |-> virtualhost(vhost, port, <<>>)]>>
    /\ UNCHANGED <<bufvars, tr, resp>>

\* The Translator driven by the events of the TLS objects.
TLSSpec == Init /\ [][NextOf(TLSObjects)]_vars

\* Configurations of the listeners: each HTTP and HTTPS setting left to its
\* default or set.
ListenerConfigs ==
    { [IngressClass |-> "", HTTPAddress |-> a[1], HTTPPort |-> a[2], HTTPAccessLog |-> l,
       HTTPSAddress |-> sa[1], HTTPSPort |-> sa[2], HTTPSAccessLog |-> sl,
       UseProxyProto |-> FALSE] :
          a \in {<<"", 0>>, <<"127.0.0.1", 9080>>}, l \in {"", "/tmp/http_access.log"},
          sa \in {<<"", 0>>, <<"127.0.0.2", 9443>>}, sl \in {"", "/tmp/https_access.log"} }

\* The Translator started with any of these configurations and driven by
\* the events of the Ingress i1 and of the IngressRoutes.
ConfigInit ==
    /\ BufInit
    /\ size = 0
    /\ tr \in {NewTranslator(cfg) : cfg \in ListenerConfigs}
    /\ resp = <<>>
    /\ last = <<>>

ConfigSpec == ConfigInit /\ [][NextOf(IngressShapes("i1") \cup IngressRoutes)]_vars

HashSpec == Init /\ [][EvHashname \/ EvVirtualhost]_vars

\* The specification of the request timeout: the orchestrator library
\* delivers the events of one Ingress that carries the annotation or not.
TimeoutSpec == Init /\ [][NextOf(TimeoutIngresses)]_vars

(***************************************************************************)
(* The specification of the Cluster cache: the orchestrator library        *)
(* delivers the events of the Services.                                    *)
(***************************************************************************)
\* No map of Ingresses is visited on a Service event.
NoOrder == <<>>

EvServiceOnAdd ==
    /\ \E svc \in Services :
         /\ Cached(tr, svc) \subseteq {svc}
         /\ tr' = OnAdd(tr, svc, NoOrder)
         /\ last' = <<[op |-> "OnAdd", oldObj |-> <<>>, newObj |-> <<svc>>]>>
    /\ UNCHANGED <<bufvars, resp>>

EvServiceOnUpdate ==
    /\ \E newsvc \in Services :
         \E oldsvc \in Cached(tr, newsvc) :
             /\ tr' = OnUpdate(tr, oldsvc, newsvc, NoOrder)
             /\ last' = <<[op |-> "OnUpdate", oldObj |-> <<oldsvc>>, newObj |-> <<newsvc>>]>>
    /\ UNCHANGED <<bufvars, resp>>

EvServiceOnDelete ==
    /\ \E svc \in Services :
         /\ svc \in Cached(tr, svc)
         /\ \/ tr' = OnDelete(tr, svc, NoOrder)
            \/ tr' = OnDelete(tr, DeletedFinalStateUnknown(svc), NoOrder)
         /\ last' = <<[op |-> "OnDelete", oldObj |-> <<svc>>, newObj |-> <<>>]>>
    /\ UNCHANGED <<bufvars, resp>>

ClusterNext == EvServiceOnAdd \/ EvServiceOnUpdate \/ EvServiceOnDelete

ClusterSpec == Init /\ [][ClusterNext]_vars


(***************************************************************************)
(* Properties of the Translator.                                           *)
(***************************************************************************)

\* The contents of the resource caches, and their versions.
ResourceContents(t) == [listeners |-> t.listeners, http |-> t.http, https |-> t.https]

Versions(t) == [listeners |-> t.lversion, virtualhosts |-> t.vversion]

MapValues(m) == {m[k] : k \in DOMAIN m}

\* The objects in the Object Cache.
CachedObjects(t) ==
    MapValues(t.cache.ingresses) \cup MapValues(t.cache.routes) \cup MapValues(t.cache.secrets)

\* The orders in which the elements of a set can be listed.
Listings(S) ==
    {q \in [1..Cardinality(S) -> S] : \A i, j \in 1..Cardinality(S) : i # j => q[i] # q[j]}

\* The Translator after OnAdd of objs[1], objs[2], ... with range orders ords.
RECURSIVE Replay(_, _, _)
Replay(t, objs, ords) ==
    IF objs = <<>> THEN t
    ELSE Replay(OnAdd(t, Head(objs), Head(ords)), Tail(objs), Tail(ords))

\* The Ingresses of the Object Cache that pass the ingress class filter.
Admissible(t) == {i \in MapValues(t.cache.ingresses) : ~otherClass(t, i)}

\* Some TLS spec of Ingress i names a Secret of the Object Cache that holds a
\* certificate and a private key.
HasTLSSecret(t, i) ==
    \E n \in 1..Len(i.tls) :
        LET md == <<i.namespace, i.tls[n].secretName>>
        IN  /\ md \in DOMAIN t.cache.secrets
            /\ {TLSCertKey, TLSPrivateKeyKey} \subseteq DOMAIN t.cache.secrets[md].data

\* C4: the Listener and VirtualHost cache contents depend only on the Object
\* Cache: whatever events led to the present Object Cache, the caches hold
\* what they hold after the history that only adds the objects now cached,
\* in any order (for some order in which range visits the maps).
C4_FunctionOfState ==
    \A q \in Listings(CachedObjects(tr)) :
        \E ords \in [1..Len(q) -> IterationOrders] :
            LET r == Replay(NewTranslator(tr.cfg), q, ords)
            IN  r.cache = tr.cache => ResourceContents(r) = ResourceContents(tr)

\* C5: OnAdd(X) followed by OnDelete(X), X not in the Object Cache before,
\* returns the resource caches to the contents they had before the OnAdd.
C5_RoundTrip ==
    \A X \in Objects \ {UnknownObject} :
        Cached(tr, X) = {} =>
            \A ord \in IterationOrders :
                ResourceContents(OnDelete(OnAdd(tr, X, ord), X, ord)) = ResourceContents(tr)

\* C6: the OnAdd events of two objects yield the same resource-cache
\* contents in either order (the maps being visited in the same order).
C6_OrderIndependent ==
    \A X, Y \in Objects \ {UnknownObject} :
        (Cached(tr, X) = {} /\ Cached(tr, Y) = {}
         /\ <<X.kind, metadata(X)>> # <<Y.kind, metadata(Y)>>) =>
            \A ord \in IterationOrders :
                ResourceContents(OnAdd(OnAdd(tr, X, ord), Y, ord))
                    = ResourceContents(OnAdd(OnAdd(tr, Y, ord), X, ord))

\* C7: OnAdd of an object equal to the one in the Object Cache changes no
\* resource-cache contents and bumps no version.
C7_Idempotent ==
    [][\A obj \in Objects, ord \in IterationOrders :
          (obj \in Cached(tr, obj) /\ tr' = OnAdd(tr, obj, ord)) =>
              /\ ResourceContents(tr') = ResourceContents(tr)
              /\ Versions(tr') = Versions(tr)]_vars

\* C8, contents: every filter chain of ingress_https, the presence of
\* ingress_http and every VirtualHost route come from an Ingress that passes
\* the class filter (or from an IngressRoute).
C8_NoContribution ==
    /\ ENVOY_HTTPS_LISTENER \in DOMAIN tr.listeners =>
          \A c \in SeqRange(tr.listeners[ENVOY_HTTPS_LISTENER].FilterChains) :
              \E i \in Admissible(tr) : c \in SeqRange(tlsFilterChains(tr, i, tr.cache.secrets))
    /\ ENVOY_HTTP_LISTENER \in DOMAIN tr.listeners =>
          \/ \E i \in Admissible(tr) : httpAllowed(i)
          \/ DOMAIN tr.cache.routes # {}
    /\ \A h \in DOMAIN tr.https : \A r \in SeqRange(tr.https[h].routes) :
          \E i \in Admissible(tr) : r \in SeqRange(ingressRoutes(h, i, TRUE))
    /\ \A h \in DOMAIN tr.http : \A r \in SeqRange(tr.http[h].routes) :
          \/ \E i \in Admissible(tr) : r \in SeqRange(httpRoutes(h, i))
          \/ DOMAIN At(tr.cache.vhostroutes, h) # {}

\* C8, versions: the events of an Ingress of another class bump no version.
C8_NoVersionBump ==
    \A i \in Ingresses, ord \in IterationOrders :
        (otherClass(tr, i) /\ Cached(tr, i) \subseteq {i} /\ tr' = OnAdd(tr, i, ord))
            => Versions(tr') = Versions(tr)

\* C8: an Ingress whose ingress class annotation names another class makes
\* no contribution to any cache, and its own events bump no cache version.
C8_ClassFilter == []C8_NoContribution /\ [][C8_NoVersionBump]_vars

\* C9: ingress_http is in the Listener cache whenever an admissible Ingress
\* (matching class, http allowed) or an IngressRoute is in the Object Cache.
C9_HTTPListenerPresent ==
    ((\E i \in Admissible(tr) : httpAllowed(i)) \/ DOMAIN tr.cache.routes # {})
        => ENVOY_HTTP_LISTENER \in DOMAIN tr.listeners

\* C10: every Listener in the cache has a filter chain, and ingress_https is
\* there only if some Ingress now in the Object Cache has a TLS spec whose
\* Secret is now in the Object Cache with a certificate and a private key.
C10_ListenersHaveChains ==
    /\ \A n \in DOMAIN tr.listeners : Len(tr.listeners[n].FilterChains) >= 1
    /\ ENVOY_HTTPS_LISTENER \in DOMAIN tr.listeners =>
          \E i \in MapValues(tr.cache.ingresses) : HasTLSSecret(tr, i)

\* The hosts named by the rules of an Ingress, a rule without host counting
\* as "*".
ruleHosts(i) == {IF i.rules[n].host = "" THEN "*" ELSE i.rules[n].host : n \in 1..Len(i.rules)}

\* The HTTP and HTTPS VirtualHosts of host h, as sets (empty when absent).
VirtualHostsOf(t, h) ==
    [http |-> IF h \in DOMAIN t.http THEN {t.http[h]} ELSE {},
     https |-> IF h \in DOMAIN t.https THEN {t.https[h]} ELSE {}]

\* The VirtualHosts of host h are what recomputing h from the Object Cache
\* gives (for some order in which range visits the Ingresses of h).
RecomputedFromCache(t, h) ==
    \E ord \in IterationOrders :
        VirtualHostsOf(recomputevhost(t, h, At(t.cache.vhosts, h), ord), h) = VirtualHostsOf(t, h)

\* C11: after OnUpdate(old, new) of an Ingress the VirtualHosts of every
\* host named by a rule of old or of new are those recomputed from the
\* Object Cache; a VirtualHost only old contributed to is gone.
C11_UpdateRecomputesHosts ==
    [][\A oldObj, newObj \in Ingresses, ord \in IterationOrders :
          (oldObj \in Cached(tr, newObj) /\ tr' = OnUpdate(tr, oldObj, newObj, ord)) =>
              \A h \in ruleHosts(oldObj) \cup ruleHosts(newObj) : RecomputedFromCache(tr', h)]_vars

\* C12: after OnDelete of an Ingress the VirtualHost of each of its hosts
\* carries the routes of the Ingresses that still contribute to the host,
\* and is absent only if none remains.
C12_DeleteKeepsOthers ==
    [][\A obj \in Ingresses, ord \in IterationOrders :
          (obj \in Cached(tr, obj) /\ tr' = OnDelete(tr, obj, ord)) =>
              \A h \in ingressHosts(obj) : RecomputedFromCache(tr', h)]_vars

\* Some TLS spec of Ingress i names host h and a Secret.
NamesHostAndSecret(h, i) ==
    \E n \in 1..Len(i.tls) : h \in SeqRange(i.tls[n].hosts) /\ i.tls[n].secretName # ""

\* Some TLS spec of Ingress i names host h and a Secret that is in the
\* Object Cache with a certificate and a private key.
NamesHostAndCachedSecret(t, h, i) ==
    \E n \in 1..Len(i.tls) :
        LET md == <<i.namespace, i.tls[n].secretName>>
        IN  /\ h \in SeqRange(i.tls[n].hosts)
            /\ md \in DOMAIN t.cache.secrets
            /\ {TLSCertKey, TLSPrivateKeyKey} \subseteq DOMAIN t.cache.secrets[md].data

C14_Deterministic ==
    \A o1, o2 \in IterationOrders :
        recomputeListeners(tr, tr.cache.ingresses, tr.cache.secrets, o1).listeners
            = recomputeListeners(tr, tr.cache.ingresses, tr.cache.secrets, o2).listeners

(***************************************************************************)
(* Properties of the discovery server.                                     *)
(***************************************************************************)

\* The number a version string renders.
VersionNumber(s) == CHOOSE n \in 0..(MaxVersion + 1) : ToString(n) = s

\* The versions of the caches never decrease, and a step that adds, replaces
\* or removes an entry of a cache advances the version of that cache.
CacheVersionAdvances ==
    /\ tr'.lversion >= tr.lversion
    /\ tr'.vversion >= tr.vversion
    /\ tr'.listeners # tr.listeners => tr'.lversion > tr.lversion
    /\ (tr'.http # tr.http \/ tr'.https # tr.https) => tr'.vversion > tr.vversion

\* The VersionInfo of a Fetch after a step that changed a cache is greater
\* than the VersionInfo of the same Fetch before it.
FetchVersionAdvances ==
    LET info(t, typeUrl) == VersionNumber(Fetch(t, DiscoveryRequest(typeUrl, <<>>)).VersionInfo)
    IN  /\ tr'.listeners # tr.listeners => info(tr', listenerType) > info(tr, listenerType)
        /\ (tr'.http # tr.http \/ tr'.https # tr.https) => info(tr', routeType) > info(tr, routeType)

\* C15: the version of a resource cache is monotonically increasing and
\* advances on every mutation that adds, replaces or removes an entry, and
\* so does the VersionInfo of the Fetch responses.
C15_VersionAdvances == [][CacheVersionAdvances /\ FetchVersionAdvances]_vars

ResourceNamesOfType(t, typeUrl) ==
    IF typeUrl = routeType THEN {ENVOY_HTTP_LISTENER, ENVOY_HTTPS_LISTENER}
    ELSE DOMAIN t.listeners

\* Resource r is the resource of its name, of the type, in the caches of t.
IsResourceOf(t, typeUrl, r) ==
    IF typeUrl = routeType
    THEN /\ r.name \in {ENVOY_HTTP_LISTENER, ENVOY_HTTPS_LISTENER}
         /\ SeqRange(r.virtual_hosts)
                = MapValues(IF r.name = ENVOY_HTTP_LISTENER THEN t.http ELSE t.https)
         /\ Len(r.virtual_hosts)
                = Cardinality(DOMAIN (IF r.name = ENVOY_HTTP_LISTENER THEN t.http ELSE t.https))
    ELSE r.name \in DOMAIN t.listeners /\ r = t.listeners[r.name]

\* The response rs answers request req on the caches of t.
FilteredSnapshot(t, req, rs) ==
    LET names == {rs.Resources[k].name : k \in 1..Len(rs.Resources)}
        all == ResourceNamesOfType(t, req.TypeUrl)
    IN  /\ \A k \in 1..Len(rs.Resources) : IsResourceOf(t, req.TypeUrl, rs.Resources[k])
        /\ Cardinality(names) = Len(rs.Resources)
        /\ names = (IF req.ResourceNames = <<>> THEN all ELSE all \cap SeqRange(req.ResourceNames))
        /\ (req.ResourceNames = <<>> /\ req.TypeUrl = routeType) =>
              /\ Len(rs.Resources) = 2
              /\ rs.Resources[1].name = ENVOY_HTTP_LISTENER
              /\ rs.Resources[2].name = ENVOY_HTTPS_LISTENER

\* C17: with a non-empty resource-name list a Fetch response holds exactly
\* the resources whose name is in the list; with an empty list it holds
\* every resource, for routes always ingress_http then ingress_https, each
\* there even without VirtualHosts.
C17_FetchFilter ==
    [][(resp' # resp) => FilteredSnapshot(tr, resp'[1].req, resp'[1].resp)]_vars

\* A Fetch of ingress_https alone answered with its one RouteConfiguration,
\* while ingress_http has VirtualHosts too.
C17_Witness ==
    /\ resp # <<>>
    /\ resp[1].req = DiscoveryRequest(routeType, <<ENVOY_HTTPS_LISTENER>>)
    /\ Len(resp[1].resp.Resources) = 1
    /\ resp[1].resp.Resources[1].virtual_hosts # <<>>
    /\ DOMAIN tr.http # {}

\* The VirtualHosts of both route tables.
AllVirtualHosts(t) == MapValues(t.http) \cup MapValues(t.https)

\* C18: in every VirtualHost the match of each route is at least as long as
\* the match of the route after it.
C18_LongestPrefixFirst ==
    \A v \in AllVirtualHosts(tr) :
        \A k \in 1..(Len(v.routes) - 1) :
            Len(v.routes[k].match.prefix) >= Len(v.routes[k + 1].match.prefix)

\* A VirtualHost with routes of two Ingresses, the longer match first.
C18_Witness ==
    \E v \in AllVirtualHosts(tr) :
        /\ Len(v.routes) >= 2
        /\ Len(v.routes[1].match.prefix) > Len(v.routes[2].match.prefix)
        /\ Cardinality(DOMAIN At(tr.cache.vhosts, v.name)) >= 2

\* The matches of the routes Ingress i contributes to host h.
MatchesOf(h, i) == {r.match : r \in SeqRange(ingressRoutes(h, i, TRUE))}

\* The HTTP VirtualHost of host h was written by the step, from Ingresses
\* (its routes carry no weighted clusters).
HTTPVirtualHostWritten(h) ==
    /\ h \in DOMAIN tr'.http
    /\ VirtualHostsOf(tr', h).http # VirtualHostsOf(tr, h).http
    /\ \A r \in SeqRange(tr'.http[h].routes) : "weighted" \notin DOMAIN r.action

\* In the HTTP VirtualHost v of host h the redirects are the routes of the
\* Ingresses of h with force-ssl-redirect=true, and the other routes are the
\* routes to a cluster of the Ingresses of h without it.
RedirectPerRoute(t, h, v) ==
    LET contributors == MapValues(At(t.cache.vhosts, h))
    IN  /\ \A r \in SeqRange(v.routes) :
              /\ (r.action = redirecthttps) <=>
                     \E i \in contributors : tlsRequired(i) /\ r.match \in MatchesOf(h, i)
              /\ (r.action # redirecthttps) =>
                     \E i \in contributors :
                         ~tlsRequired(i) /\ r \in SeqRange(ingressRoutes(h, i, TRUE))
        /\ \A i \in contributors : \A m \in MatchesOf(h, i) :
              \E r \in SeqRange(v.routes) : r.match = m

\* C19: whenever a step writes the HTTP VirtualHost of a host from
\* Ingresses, exactly the routes of the Ingresses with
\* force-ssl-redirect=true are HTTPS redirects and the routes of the other
\* Ingresses of the host route to their cluster; no route of an HTTPS
\* VirtualHost is a redirect.
C19_RedirectPerRoute ==
    [][/\ \A h \in DOMAIN tr'.http :
             HTTPVirtualHostWritten(h) => RedirectPerRoute(tr', h, tr'.http[h])
       /\ \A v \in MapValues(tr'.https) :
             \A r \in SeqRange(v.routes) : r.action # redirecthttps]_vars

\* The HTTP VirtualHost of a.com holds a redirect of an Ingress with
\* force-ssl-redirect=true and a route to a cluster of another Ingress, and
\* the HTTPS VirtualHost of a.com holds the route of the former.
C19_Witness ==
    /\ "a.com" \in DOMAIN tr.http
    /\ "a.com" \in DOMAIN tr.https
    /\ \E r \in SeqRange(tr.http["a.com"].routes) : r.action = redirecthttps
    /\ \E r \in SeqRange(tr.http["a.com"].routes) : "cluster" \in DOMAIN r.action
    /\ \E i \in MapValues(At(tr.cache.vhosts, "a.com")) :
          /\ tlsRequired(i)
          /\ \E r \in SeqRange(tr.https["a.com"].routes) :
                r \in SeqRange(ingressRoutes("a.com", i, FALSE))

\* The Clusters in the cache are those of the ports of the cached Services,
\* one name by the number of each port and one by its name.
ClusterNamesOfServices(t) ==
    UNION { UNION { {svc.namespace \o "/" \o svc.name \o "/" \o ToString(svc.ports[n].port)}
                    \cup (IF svc.ports[n].name # ""
                          THEN {svc.namespace \o "/" \o svc.name \o "/" \o svc.ports[n].name}
                          ELSE {}) : n \in 1..Len(svc.ports) }
            : svc \in MapValues(t.cache.services) }

\* The service name of the EdsClusterConfig of the Cluster called name is sn.
HasCluster(t, name, sn) ==
    /\ name \in DOMAIN t.clusters
    /\ t.clusters[name].name = name
    /\ t.clusters[name].eds_cluster_config.service_name = sn

\* C20: for every cached Service ns/name, a port with number P and name Q
\* has the two Clusters "ns/name/P" and "ns/name/Q", both with the service
\* name "ns/name/Q", a port with number P and no name has the Cluster
\* "ns/name/P" with the service name "ns/name", and the cache holds no
\* other Cluster.
C20_ClusterNaming ==
    /\ \A svc \in MapValues(tr.cache.services) : \A n \in 1..Len(svc.ports) :
          LET nsname == svc.namespace \o "/" \o svc.name
              P == ToString(svc.ports[n].port)
              Q == svc.ports[n].name
          IN  IF Q # ""
              THEN /\ nsname \o "/" \o P # nsname \o "/" \o Q
                   /\ HasCluster(tr, nsname \o "/" \o P, nsname \o "/" \o Q)
                   /\ HasCluster(tr, nsname \o "/" \o Q, nsname \o "/" \o Q)
              ELSE HasCluster(tr, nsname \o "/" \o P, nsname)
    /\ DOMAIN tr.clusters = ClusterNamesOfServices(tr)

\* One Service with a port that has a name and another with a port that
\* has none, their three Clusters in the cache.
C20_Witness ==
    /\ \E svc \in MapValues(tr.cache.services) : svc.ports = <<ServicePort("https", 443)>>
    /\ \E svc \in MapValues(tr.cache.services) : svc.ports = <<ServicePort("", 443)>>
    /\ Cardinality(DOMAIN tr.cache.services) = 2
    /\ Cardinality(DOMAIN tr.clusters) = 3

\* The names of the Clusters of one Service: one by the number of each port
\* and one by its name.
ClusterNamesOf(svc) ==
    UNION { {svc.namespace \o "/" \o svc.name \o "/" \o ToString(svc.ports[n].port)}
            \cup (IF svc.ports[n].name # ""
                  THEN {svc.namespace \o "/" \o svc.name \o "/" \o svc.ports[n].name}
                  ELSE {}) : n \in 1..Len(svc.ports) }

\* Every Cluster name a Service with the metadata of svc may have emitted.
ClusterNamesOfMeta(svc) ==
    UNION {ClusterNamesOf(s) : s \in {x \in Services : metadata(x) = metadata(svc)}}

\* The names of the Clusters in the cache that belong to svc.
CachedClusterNames(t, svc) == (DOMAIN t.clusters) \cap ClusterNamesOfMeta(svc)

\* The Clusters of the Services other than svc are as they were.
OtherClustersKept(svc) ==
    \A x \in (DOMAIN tr.clusters) \ ClusterNamesOfMeta(svc) :
        x \in DOMAIN tr'.clusters /\ tr'.clusters[x] = tr.clusters[x]

\* C21: after OnUpdate(old, new) of a Service the Clusters of that Service
\* in the cache are exactly those of new (every name of old that new does
\* not emit is gone); after OnDelete none of them remains; the Clusters of
\* the other Services are as before.
C21_ServiceClustersExact ==
    [][(last' # <<>> /\ tr' # tr) =>
          LET e == last'[1]
          IN  /\ e.op = "OnUpdate" =>
                    /\ CachedClusterNames(tr', e.newObj[1]) = ClusterNamesOf(e.newObj[1])
                    /\ (ClusterNamesOf(e.oldObj[1]) \ ClusterNamesOf(e.newObj[1]))
                           \cap DOMAIN tr'.clusters = {}
                    /\ OtherClustersKept(e.newObj[1])
              /\ e.op = "OnDelete" =>
                    /\ CachedClusterNames(tr', e.oldObj[1]) = {}
                    /\ OtherClustersKept(e.oldObj[1])]_vars

\* The last event was the update of a Service that took the name from a
\* port or changed its number, so that a Cluster of the old Service is gone
\* while another Service has its Clusters.
C21_Witness ==
    /\ last # <<>>
    /\ last[1].op = "OnUpdate"
    /\ ClusterNamesOf(last[1].oldObj[1]) \ ClusterNamesOf(last[1].newObj[1]) # {}
    /\ CachedClusterNames(tr, last[1].newObj[1]) = ClusterNamesOf(last[1].newObj[1])
    /\ Cardinality(DOMAIN tr.cache.services) >= 2

\* The sum of the numbers of a sequence.
SumOf(ws) ==
    LET S[k \in 0..Len(ws)] == IF k = 0 THEN 0 ELSE S[k - 1] + ws[k]
    IN  S[Len(ws)]

\* emitted are the weights of a route whose services specify the weights
\* given (<<>>: none, <<w>>: w).
WeightsAsSpecified(given, emitted) ==
    LET unset == {k \in DOMAIN given : given[k] = <<>>}
        specified == (DOMAIN given) \ unset
    IN  /\ DOMAIN emitted = DOMAIN given
        /\ \A k \in specified : emitted[k] = given[k][1]
        /\ unset # {} =>
              /\ SumOf(emitted) = 100
              /\ \A j, k \in unset : emitted[j] - emitted[k] \in {-1, 0, 1}
              /\ \A k \in unset : emitted[k] >= 0

\* The weights emitted for the clusters of an action.
EmittedWeights(action) == [k \in DOMAIN action.weighted |-> action.weighted[k].weight]

\* C22: the weights emitted for a route of an IngressRoute are the weights
\* its services specify, and the services that specify none share 100 minus
\* the sum of the specified weights evenly, so that the emitted weights sum
\* to 100 whenever a service specifies none.
C22_WeightedRouting ==
    \A r \in MapValues(tr.cache.routes) :
        /\ routeHost(r) \in DOMAIN tr.http
        /\ Len(tr.http[routeHost(r)].routes) = Len(r.routes)
        /\ \A n \in DOMAIN r.routes :
              LET given == [k \in DOMAIN r.routes[n].services |-> r.routes[n].services[k].weight]
              IN  WeightsAsSpecified(given, EmittedWeights(tr.http[routeHost(r)].routes[n].action))

\* The route of the cached IngressRoute gives the weights 33 and 2 to its
\* first two services and none to the third, and the weights emitted are
\* 33, 2 and 65.
C22_Witness ==
    /\ \E r \in MapValues(tr.cache.routes) :
          [k \in DOMAIN r.routes[1].services |-> r.routes[1].services[k].weight]
              = <<<<33>>, <<2>>, <<>>>>
    /\ "a.com" \in DOMAIN tr.http
    /\ EmittedWeights(tr.http["a.com"].routes[1].action) = <<33, 2, 65>>

\* The timeout a value of the request-timeout annotation asks for, in
\* seconds (part_000:433-521): none without the annotation, 600 for "600s"
\* and "10m", 0 for "infinity" and for "600".
ExpectedTimeout(i) ==
    IF annotationRequestTimeout \notin DOMAIN i.annotations THEN <<>>
    ELSE CASE i.annotations[annotationRequestTimeout] \in {"600s", "10m"} -> <<600>>
           [] OTHER -> <<0>>

\* Every route of the HTTP VirtualHosts of the hosts of Ingress i goes to
\* the backend with the timeout i asks for, and with no other.
TimeoutReflects(t, i) ==
    \A h \in ingressHosts(i) :
        /\ h \in DOMAIN t.http
        /\ t.http[h].routes # <<>>
        /\ \A r \in SeqRange(t.http[h].routes) :
              /\ "cluster" \in DOMAIN r.action
              /\ IF ExpectedTimeout(i) = <<>>
                 THEN "timeout" \notin DOMAIN r.action
                 ELSE "timeout" \in DOMAIN r.action /\ r.action.timeout = ExpectedTimeout(i)[1]

\* C23: after OnAdd of an Ingress, and after each OnUpdate of it, its
\* routes carry the timeout of the request-timeout annotation of the new
\* object only: none when it is absent, the duration it names, and zero for
\* "infinity" and for a value that does not parse.
C23_RequestTimeout ==
    [][\A new \in TimeoutIngresses, ord \in IterationOrders :
          /\ (Cached(tr, new) = {} /\ tr' = OnAdd(tr, new, ord)) => TimeoutReflects(tr', new)
          /\ \A old \in Cached(tr, new) :
                tr' = OnUpdate(tr, old, new, ord) => TimeoutReflects(tr', new)]_vars

\* The cached Ingress asks for "600s" and its route has the timeout of 600
\* seconds, the VirtualHost caches having been notified of an update.
C23_Witness ==
    /\ \E i \in MapValues(tr.cache.ingresses) :
          /\ i \in TimeoutIngresses
          /\ annotationRequestTimeout \in DOMAIN i.annotations
          /\ i.annotations[annotationRequestTimeout] = "600s"
          /\ TimeoutReflects(tr, i)
    /\ "*" \in DOMAIN tr.http
    /\ \E r \in SeqRange(tr.http["*"].routes) :
          r.action = [cluster |-> "default/backend/80", timeout |-> 600]
    /\ tr.vversion >= 2

\* strings.Join(s, "/")
JoinParts(s) ==
    LET Join[k \in 0..Len(s)] ==
            IF k = 0 THEN "" ELSE IF k = 1 THEN s[1] ELSE Join[k - 1] \o "/" \o s[k]
    IN  Join[Len(s)]

\* C24: hashname(L, parts...) is never longer than L, whatever the limit
\* L >= 1 and the parts; the name of a VirtualHost is never longer than 60,
\* and a host of more than 60 characters gets a name of 60 characters that
\* is not the host while its domains keep the host.
C24_NameLengthBound ==
    last # <<>> =>
        /\ last[1].op = "hashname" => Len(last[1].r) <= last[1].l
        /\ last[1].op = "virtualhost" =>
              /\ Len(last[1].r.name) <= 60
              /\ last[1].vhost # "*" =>
                    last[1].r.domains = <<last[1].vhost, last[1].vhost \o ":" \o last[1].port>>
              /\ Len(last[1].vhost) > 60 =>
                    Len(last[1].r.name) = 60 /\ last[1].r.name # last[1].vhost

\* The VirtualHost of the host of 68 characters has the name that
\* virtualhost_test.go:411 expects, of 60 characters.
C24_Witness ==
    /\ last # <<>>
    /\ last[1].op = "virtualhost"
    /\ last[1].vhost = LongHost
    /\ Len(LongHost) = 68
    /\ last[1].r.name = "d31bb322ca62bb395acad00b3cbf45a3aa1010ca28dca7cddb4f7db786fa"
    /\ Len(last[1].r.name) = 60

\* C28: hashname returns the joined parts unchanged whenever their length
\* is at most L, the length L itself included, and a host of exactly 60
\* characters is the name of its VirtualHost.
C28_WithinLimitAsIs ==
    last # <<>> =>
        /\ (last[1].op = "hashname" /\ Len(JoinParts(last[1].s)) <= last[1].l) =>
              last[1].r = JoinParts(last[1].s)
        /\ (last[1].op = "virtualhost" /\ Len(last[1].vhost) = 60) =>
              last[1].r.name = last[1].vhost

\* Ingress i sets allow-http=false.
ForbidsHTTP(i) ==
    /\ annotationAllowHTTP \in DOMAIN i.annotations
    /\ i.annotations[annotationAllowHTTP] = "false"

\* The VirtualHosts of host h are admitted as the Ingresses of h in the
\* Object Cache of t ask: the HTTP one unless one of them sets
\* allow-http=false, the HTTPS one whenever one of them has a TLS spec for
\* h, whatever allow-http says.
AdmittedByContributors(t, h) ==
    LET contributors == MapValues(At(t.cache.vhosts, h))
    IN  /\ h \in DOMAIN t.http <=> ~(\E i \in contributors : ForbidsHTTP(i))
        /\ h \in DOMAIN t.https <=> \E i \in contributors : NamesHostAndSecret(h, i)

\* C25: when OnAdd or OnUpdate puts an Ingress of the Translator's class
\* into the Object Cache, each host of the Ingress has its VirtualHost in ingress_http unless some
\* Ingress of that host sets allow-http=false; then the host has no HTTP
\* VirtualHost, and its HTTPS VirtualHost is there as without the
\* annotation.
C25_HTTPAdmission ==
    [][\A new \in Ingresses :
          LET k == metadata(new)
              entered == /\ k \in DOMAIN tr'.cache.ingresses
                         /\ tr'.cache.ingresses[k] = new
                         /\ (k \in DOMAIN tr.cache.ingresses => tr.cache.ingresses[k] # new)
          IN  (entered /\ ~otherClass(tr, new)) =>
                  \A h \in ingressHosts(new) : AdmittedByContributors(tr', h)]_vars

\* Two Ingresses of a.com, one of which sets allow-http=false: a.com has
\* its HTTPS VirtualHost and no HTTP VirtualHost.
C25_Witness ==
    /\ \E i, j \in MapValues(At(tr.cache.vhosts, "a.com")) :
          ForbidsHTTP(i) /\ ~ForbidsHTTP(j) /\ ~otherClass(tr, j)
    /\ "a.com" \in DOMAIN tr.https
    /\ "a.com" \notin DOMAIN tr.http

\* C26: once the stop channel is closed the consumer loop eventually
\* returns, whatever is queued and whatever the producers go on sending.
C26_Cancellation == stop ~> (lpc = "stopped")

\* The loop has returned on stop with an event still in the channel and a
\* producer blocked in its send.
C26_Witness ==
    /\ stop
    /\ lpc = "stopped"
    /\ ev # <<>>
    /\ \E p \in Producers : ppc[p] = "blocked"

\* C27: OnDelete of the tombstone of a cached object (or of an object of an
\* unexpected type) leaves the Translator, Object Cache and resource caches,
\* as OnDelete of the object itself would.
C27_Tombstones ==
    \A x \in Objects \cup Services, ord \in IterationOrders :
        (x = UnknownObject \/ x \in Cached(tr, x)) =>
            OnDelete(tr, DeletedFinalStateUnknown(x), ord) = OnDelete(tr, x, ord)

\* An Ingress is cached whose deletion by tombstone takes it out of the
\* Object Cache and changes the HTTP VirtualHosts.
C27_Witness ==
    \E x \in Ingresses, ord \in IterationOrders :
        /\ x \in Cached(tr, x)
        /\ LET a == OnDelete(tr, DeletedFinalStateUnknown(x), ord)
           IN  /\ Cached(a, x) = {}
               /\ a.http # tr.http
               /\ a.vversion = tr.vversion + 1

\* The (Ingress, TLS spec) pairs of the Object Cache of t whose Secret is
\* cached with a certificate and a private key.
QualifyingTriples(t) ==
    {p \in UNION {{<<k, n>> : n \in 1..Len(t.cache.ingresses[k].tls)} : k \in DOMAIN t.cache.ingresses} :
        LET i == t.cache.ingresses[p[1]]
            md == <<i.namespace, i.tls[p[2]].secretName>>
        IN  /\ md \in DOMAIN t.cache.secrets
            /\ TLSCertKey \in DOMAIN t.cache.secrets[md].data
            /\ TLSPrivateKeyKey \in DOMAIN t.cache.secrets[md].data}

\* Filter chain c serves the TLS spec p of t: its hosts and the
\* certificate and key of its Secret.
ChainServes(t, c, p) ==
    LET i == t.cache.ingresses[p[1]]
        secret == t.cache.secrets[<<i.namespace, i.tls[p[2]].secretName>>]
    IN  /\ c.SniDomains = i.tls[p[2]].hosts
        /\ Len(c.TlsContext) = 1
        /\ c.TlsContext[1].CertificateChain = secret.data[TLSCertKey]
        /\ c.TlsContext[1].PrivateKey = secret.data[TLSPrivateKeyKey]

\* C29: the filter chains of ingress_https are, one for one, the TLS specs
\* of the cached Ingresses whose Secret is cached with a certificate and a
\* private key; the other TLS specs have none, and without any such TLS
\* spec there is no ingress_https listener.
C29_FilterChainPerTriple ==
    LET chains == IF ENVOY_HTTPS_LISTENER \in DOMAIN tr.listeners
                  THEN tr.listeners[ENVOY_HTTPS_LISTENER].FilterChains ELSE <<>>
        triples == QualifyingTriples(tr)
    IN  /\ Len(chains) = Cardinality(triples)
        /\ \E f \in [1..Len(chains) -> triples] :
              /\ \A m, n \in 1..Len(chains) : f[m] = f[n] => m = n
              /\ \A n \in 1..Len(chains) : ChainServes(tr, chains[n], f[n])
        /\ ENVOY_HTTPS_LISTENER \in DOMAIN tr.listeners <=> triples # {}

\* An Ingress with two TLS specs, of which the one for a.com has its
\* filter chain and the one for b.com, whose Secret lacks an entry, has
\* none; a second Ingress has no chain either.
C29_Witness ==
    /\ \E k \in DOMAIN tr.cache.ingresses :
          /\ Len(tr.cache.ingresses[k].tls) = 2
          /\ <<k, 1>> \in QualifyingTriples(tr)
          /\ <<k, 2>> \notin QualifyingTriples(tr)
    /\ <<"default", "s2">> \in DOMAIN tr.cache.secrets
    /\ Cardinality(DOMAIN tr.cache.ingresses) = 2
    /\ ENVOY_HTTPS_LISTENER \in DOMAIN tr.listeners
    /\ Len(tr.listeners[ENVOY_HTTPS_LISTENER].FilterChains) = 1

\* From t to u the ingress_http listener, the Cluster cache and both
\* VirtualHost caches, with their version, are as they were.
OnlyHTTPSListenerTouched(t, u) ==
    /\ (ENVOY_HTTP_LISTENER \in DOMAIN u.listeners) = (ENVOY_HTTP_LISTENER \in DOMAIN t.listeners)
    /\ ENVOY_HTTP_LISTENER \in DOMAIN t.listeners =>
           u.listeners[ENVOY_HTTP_LISTENER] = t.listeners[ENVOY_HTTP_LISTENER]
    /\ u.clusters = t.clusters
    /\ u.http = t.http
    /\ u.https = t.https
    /\ u.vversion = t.vversion

\* C30: in every state the OnAdd, OnUpdate or OnDelete of a Secret (a new
\* one, a replay, a changed one, a tombstone) leaves the ingress_http
\* listener, the Cluster cache and both VirtualHost caches (contents and
\* version) unchanged.
C30_SecretFrame ==
    \A s \in Secrets, ord \in IterationOrders :
        /\ Cached(tr, s) \subseteq {s} => OnlyHTTPSListenerTouched(tr, OnAdd(tr, s, ord))
        /\ \A old \in Cached(tr, s) : OnlyHTTPSListenerTouched(tr, OnUpdate(tr, old, s, ord))
        /\ s \in Cached(tr, s) =>
              /\ OnlyHTTPSListenerTouched(tr, OnDelete(tr, s, ord))
              /\ OnlyHTTPSListenerTouched(tr, OnDelete(tr, DeletedFinalStateUnknown(s), ord))

\* With ingress_http and VirtualHosts of both route configurations in
\* place, the OnAdd of a Secret creates ingress_https and the OnDelete of
\* that Secret removes it again.
C30_Witness ==
    /\ ENVOY_HTTP_LISTENER \in DOMAIN tr.listeners
    /\ tr.http # EmptyMap
    /\ tr.https # EmptyMap
    /\ \E s \in Secrets, ord \in IterationOrders :
          /\ Cached(tr, s) = {}
          /\ ENVOY_HTTPS_LISTENER \notin DOMAIN tr.listeners
          /\ LET u == OnAdd(tr, s, ord)
             IN  /\ ENVOY_HTTPS_LISTENER \in DOMAIN u.listeners
                 /\ ENVOY_HTTPS_LISTENER \notin DOMAIN OnDelete(u, s, ord).listeners

\* C31: the step on which the consumer loop takes the stop case calls the
\* handler for no event, whatever is queued, and from then on no event is
\* delivered and the loop stays returned.
C31_NoDeliveryAfterStop ==
    [][/\ lpc' = "stopped" => calls' = calls /\ running' = running
       /\ lpc = "stopped" => lpc' = "stopped"]_vars

\* The loop has returned on stop after delivering an event, with two more
\* events left in the channel.
C31_Witness ==
    /\ lpc = "stopped"
    /\ Len(calls) = 1
    /\ running = {}
    /\ Len(ev) = 2

\* C32: in every state OnAdd, OnUpdate and OnDelete of an object of an
\* unknown type leave the Translator as it is: Object Cache, resource
\* caches and versions; so the events that follow are processed as if it
\* had not been delivered.
C32_UnknownIgnored ==
    \A ord \in IterationOrders :
        /\ OnAdd(tr, UnknownObject, ord) = tr
        /\ OnUpdate(tr, UnknownObject, UnknownObject, ord) = tr
        /\ OnDelete(tr, UnknownObject, ord) = tr
        /\ \A s \in Secrets :
              OnAdd(OnAdd(tr, UnknownObject, ord), s, ord) = OnAdd(tr, s, ord)

\* Both listeners and VirtualHosts of both route configurations are in
\* place, with versions above zero, when an object of an unknown type is
\* delivered.
C32_Witness ==
    /\ ENVOY_HTTP_LISTENER \in DOMAIN tr.listeners
    /\ ENVOY_HTTPS_LISTENER \in DOMAIN tr.listeners
    /\ tr.http # EmptyMap
    /\ tr.https # EmptyMap
    /\ tr.lversion > 0
    /\ tr.vversion > 0
    /\ \A ord \in IterationOrders : OnDelete(tr, UnknownObject, ord) = tr

\* The paths that Ingress i routes for host h (a rule without host is for
\* "*").
PathsFor(h, i) ==
    UNION {{i.rules[n].paths[m].path : m \in 1..Len(i.rules[n].paths)} :
              n \in {k \in 1..Len(i.rules) : (IF i.rules[k].host = "" THEN "*" ELSE i.rules[k].host) = h}}

\* The paths routed by the VirtualHost of h in the map m of VirtualHosts.
RoutedPaths(m, h) ==
    IF h \in DOMAIN m THEN {m[h].routes[n].match.prefix : n \in 1..Len(m[h].routes)} ELSE {}

\* C33: the routes of the HTTPS VirtualHost of a host h are those of the
\* Ingresses of h that have a TLS spec listing h with a secret name; the
\* routes of the other Ingresses of h are in the HTTP VirtualHost only, and
\* "*" has no HTTPS VirtualHost.
C33_HTTPSRoutesOnlyOfTLS ==
    /\ "*" \notin DOMAIN tr.https
    /\ \A h \in DOMAIN tr.cache.vhosts :
          LET contributors == MapValues(tr.cache.vhosts[h])
              secured == {i \in contributors : NamesHostAndSecret(h, i)}
          IN  /\ RoutedPaths(tr.https, h) = UNION {PathsFor(h, i) : i \in secured}
              /\ \A i \in contributors \ secured :
                    /\ PathsFor(h, i) \cap RoutedPaths(tr.https, h) = {}
                    /\ PathsFor(h, i) \subseteq RoutedPaths(tr.http, h)

\* Two Ingresses of a.com, one with a TLS spec for a.com and one with a TLS
\* spec that lacks the secret name: HTTPS routes the path of the first
\* only, HTTP both.
C33_Witness ==
    /\ \E i, j \in MapValues(At(tr.cache.vhosts, "a.com")) :
          /\ NamesHostAndSecret("a.com", i)
          /\ j.tls # <<>> /\ ~NamesHostAndSecret("a.com", j)
          /\ RoutedPaths(tr.https, "a.com") = PathsFor("a.com", i)
          /\ RoutedPaths(tr.http, "a.com") = PathsFor("a.com", i) \cup PathsFor("a.com", j)
          /\ PathsFor("a.com", j) # {}
          /\ PathsFor("a.com", i) # PathsFor("a.com", j)

\* C34: a producer that has called OnAdd, OnUpdate or OnDelete returns from
\* the call unless the stop channel is closed first, and it goes on to the
\* blocking send only when the channel cannot take its event.
C34_SendReturns ==
    /\ \A p \in Producers : (ppc[p] # "idle") ~> (ppc[p] = "idle" \/ stop)
    /\ [][\A p \in Producers :
             (ppc[p] # "blocked" /\ ppc'[p] = "blocked") => ~CanSend]_vars

\* On an unbuffered channel both producers have returned from a call, one
\* of them after blocking, and stop is not closed.
C34_Witness ==
    /\ size = 0
    /\ ~stop
    /\ nfull >= 1
    /\ \A p \in Producers : ppc[p] = "idle" /\ Len(issued[p]) = 1
    /\ Len(calls) = 2

\* The certificate and key that filter chain c carries are those of the
\* Secret s.
CarriesSecret(c, s) ==
    /\ Len(c.TlsContext) = 1
    /\ TLSCertKey \in DOMAIN s.data /\ c.TlsContext[1].CertificateChain = s.data[TLSCertKey]
    /\ TLSPrivateKeyKey \in DOMAIN s.data /\ c.TlsContext[1].PrivateKey = s.data[TLSPrivateKeyKey]

\* C35: every filter chain of ingress_https carries the certificate and key
\* of the Secret named by a TLS spec in the namespace of the Ingress that
\* owns the TLS spec, and none carries those of a Secret of another
\* namespace than the Ingresses naming it.
C35_SecretNamespace ==
    LET chains == IF ENVOY_HTTPS_LISTENER \in DOMAIN tr.listeners
                  THEN tr.listeners[ENVOY_HTTPS_LISTENER].FilterChains ELSE <<>>
        ingresses == MapValues(tr.cache.ingresses)
        secrets == MapValues(tr.cache.secrets)
    IN  \A n \in 1..Len(chains) :
            /\ \E i \in ingresses, s \in secrets : \E k \in 1..Len(i.tls) :
                    /\ chains[n].SniDomains = i.tls[k].hosts
                    /\ s.name = i.tls[k].secretName
                    /\ s.namespace = i.namespace
                    /\ CarriesSecret(chains[n], s)
            /\ \A s \in secrets :
                    (\A i \in ingresses : s.namespace # i.namespace) => ~CarriesSecret(chains[n], s)

\* The Secret s1 is cached in the namespace of the Ingress and in another
\* one, and ingress_https has a filter chain.
C35_Witness ==
    /\ {<<"default", "s1">>, <<"kube-system", "s1">>} \subseteq DOMAIN tr.cache.secrets
    /\ \E i \in MapValues(tr.cache.ingresses) : \E k \in 1..Len(i.tls) : i.tls[k].secretName = "s1"
    /\ ENVOY_HTTPS_LISTENER \in DOMAIN tr.listeners
    /\ \E n \in 1..Len(tr.listeners[ENVOY_HTTPS_LISTENER].FilterChains) :
          CarriesSecret(tr.listeners[ENVOY_HTTPS_LISTENER].FilterChains[n],
                        tr.cache.secrets[<<"default", "s1">>])

\* The ingress_https listener is in u as it is in t: absent, or present
\* with the same address and filter chains.
SameHTTPSListener(t, u) ==
    /\ (ENVOY_HTTPS_LISTENER \in DOMAIN u.listeners) = (ENVOY_HTTPS_LISTENER \in DOMAIN t.listeners)
    /\ ENVOY_HTTPS_LISTENER \in DOMAIN t.listeners =>
           u.listeners[ENVOY_HTTPS_LISTENER] = t.listeners[ENVOY_HTTPS_LISTENER]

HTTPListenerAddressAndPort ==
    ENVOY_HTTP_LISTENER \in DOMAIN tr.listeners =>
        LET l == tr.listeners[ENVOY_HTTP_LISTENER]
        IN  /\ l.address.address = (IF tr.cfg.HTTPAddress # "" THEN tr.cfg.HTTPAddress ELSE "0.0.0.0")
            /\ l.address.port = (IF tr.cfg.HTTPPort # 0 THEN tr.cfg.HTTPPort ELSE 8080)

\* C37: whenever the ingress_http listener is in the Listener cache it is
\* bound to the configured HTTP address and port and its access log path is
\* the configured HTTP access log path (defaults 0.0.0.0, 8080,
\* /dev/stdout), whatever the HTTPS settings are.
C37_HTTPListenerBinding ==
    /\ HTTPListenerAddressAndPort
    /\ ENVOY_HTTP_LISTENER \in DOMAIN tr.listeners =>
          LET l == tr.listeners[ENVOY_HTTP_LISTENER]
          IN  \A n \in 1..Len(l.FilterChains) : \A f \in 1..Len(l.FilterChains[n].Filters) :
                  l.FilterChains[n].Filters[f].access_log =
                      (IF tr.cfg.HTTPAccessLog # "" THEN tr.cfg.HTTPAccessLog ELSE "/dev/stdout")

\* The ingress_https listener is cached with a filter chain whose SNI
\* domains include host h.
HTTPSListenerServes(t, h) ==
    /\ ENVOY_HTTPS_LISTENER \in DOMAIN t.listeners
    /\ \E n \in 1..Len(t.listeners[ENVOY_HTTPS_LISTENER].FilterChains) :
          h \in SeqRange(t.listeners[ENVOY_HTTPS_LISTENER].FilterChains[n].SniDomains)

\* C38 as stated: if the ingress_https route configuration has a
\* VirtualHost for host h, the ingress_https listener is present with a
\* filter chain whose SNI domains include h.
C38_CrossCache ==
    \A h \in DOMAIN tr.https : HTTPSListenerServes(tr, h)

\* C38 as amended: if the ingress_https route configuration has a
\* VirtualHost for host h and some Ingress of h of the Translator's class
\* has a TLS spec listing h whose Secret is in the Object Cache with a
\* certificate and a private key, the ingress_https listener is present
\* with a filter chain whose SNI domains include h.
C38_CrossCacheSecret ==
    \A h \in DOMAIN tr.https :
        (\E i \in MapValues(At(tr.cache.vhosts, h)) :
            ~otherClass(tr, i) /\ NamesHostAndCachedSecret(tr, h, i))
            => HTTPSListenerServes(tr, h)

\* a.com has its HTTPS VirtualHost, the Secret of an Ingress of a.com is
\* cached with certificate and key, and ingress_https serves a.com.
C38_Witness ==
    /\ "a.com" \in DOMAIN tr.https
    /\ \E i \in MapValues(At(tr.cache.vhosts, "a.com")) :
          ~otherClass(tr, i) /\ NamesHostAndCachedSecret(tr, "a.com", i)
    /\ HTTPSListenerServes(tr, "a.com")
    /\ tr.lversion >= 1

(***************************************************************************)
(* The specification of the buffer: the wrapped handler is any             *)
(* ResourceEventHandler, the Translator is not driven.                     *)
(***************************************************************************)
BufSpecInit ==
    /\ BufInit
    /\ tr \in {NewTranslator(cfg) : cfg \in Configs}
    /\ resp = <<>>
    /\ last = <<>>

BufNext ==
    \/ \E p \in Producers : Call(p) /\ UNCHANGED <<tr, resp, last>>
    \/ \E p \in Producers : SendFast(p) /\ UNCHANGED <<tr, resp, last>>
    \/ \E p \in Producers : SendDefault(p) /\ UNCHANGED <<tr, resp, last>>
    \/ \E p \in Producers : SendBlocked(p) /\ UNCHANGED <<tr, resp, last>>
    \/ LoopRecv /\ UNCHANGED <<tr, resp, last>>
    \/ HandlerReturn /\ UNCHANGED <<tr, resp, last>>
    \/ LoopStop /\ UNCHANGED <<tr, resp, last>>
    \/ CloseStop /\ UNCHANGED <<tr, resp, last>>

BufSpec == BufSpecInit /\ [][BufNext]_vars

\* The buffer with its scheduling: a handler call in progress returns, and
\* a select that again and again finds the closed stop channel among its
\* ready cases takes that case in the end (Go picks among the ready cases
\* of a select at random).  The producers make MaxCancelCalls calls.
CancelNext ==
    \/ \E p \in Producers : NIssued < MaxCancelCalls /\ Call(p) /\ UNCHANGED <<tr, resp, last>>
    \/ \E p \in Producers : SendFast(p) /\ UNCHANGED <<tr, resp, last>>
    \/ \E p \in Producers : SendDefault(p) /\ UNCHANGED <<tr, resp, last>>
    \/ \E p \in Producers : SendBlocked(p) /\ UNCHANGED <<tr, resp, last>>
    \/ LoopRecv /\ UNCHANGED <<tr, resp, last>>
    \/ HandlerReturn /\ UNCHANGED <<tr, resp, last>>
    \/ LoopStop /\ UNCHANGED <<tr, resp, last>>
    \/ CloseStop /\ UNCHANGED <<tr, resp, last>>

CancelSpec ==
    /\ BufSpecInit
    /\ [][CancelNext]_vars
    /\ WF_vars(HandlerReturn /\ UNCHANGED <<tr, resp, last>>)
    /\ SF_vars(LoopStop /\ UNCHANGED <<tr, resp, last>>)

\* The buffer with the scheduling of its producers as well: the loop
\* receives when an event is ready, a producer's select takes one of its
\* two cases, and a producer blocked in b.ev <- ev gets its turn when the
\* channel can take an event again and again (the senders blocked on a
\* channel wait in a queue).
SendSpec ==
    /\ CancelSpec
    /\ WF_vars(LoopRecv /\ UNCHANGED <<tr, resp, last>>)
    /\ \A p \in Producers :
          /\ WF_vars((SendFast(p) \/ SendDefault(p)) /\ UNCHANGED <<tr, resp, last>>)
          /\ SF_vars(SendBlocked(p) /\ UNCHANGED <<tr, resp, last>>)

====
